---- MODULE Spec2Model ----
(***************************************************************************)
(* State-machine model of the incremental harvest engine of Auto_Insta     *)
(* (src/id_r3.py with src/log_guard.py): marker-based early stop,          *)
(* duplicate guard, session rotation, bounded retries, profile loop.       *)
(* The older downloader (src/insta_download-22.py) is modelled beside it,  *)
(* over the same world.                                                    *)
(*                                                                         *)
(* Strings are sequences of character codes (ASCII), so that prefix,       *)
(* substring and lexicographic comparisons are computed as Python does.    *)
(* None is the empty sequence and an optional value x is <<x>>.            *)
(***************************************************************************)
EXTENDS Integers, Sequences, FiniteSets, TLC

\* ------------------------------------------------------------------ bounds
\* Items of the content catalogue (timestamps 1..NumItems).
NumItems == 10
\* Length of the short feeds.
ShortLen == 3
\* Failures the environment may inject into a behaviour over a short feed.
MaxFaults == 2
\* Runs of main() in one behaviour.
MaxRuns == 2
\* Ticks of the rotation clock that make the smallest rotation interval the
\* session manager accepts (the floor of max(10, rotate_interval_sec)).
RotateTicks == 1

\* Children of a multi-part post.
MaxNodes == 2
\* Lines of the credential file.
MaxLines == 2
\* Length of the feed the older downloader scans.
OlderLen == 5

\* ------------------------------------------------------- program constants
MAX_RETRIES_PROFILE == 6
MAX_RETRIES_POST == 2
CONSEC_SEEN_STOP == 8
BACKOFF_BASE_SEC == 120
BACKOFF_CAP_SEC == 480
PROBE_TRIES == 4
\* insta_download-22
MAX_LEADING_SEEN_SKIPS == 3
ROTATE_EVERY_POSTS == 12

\* ------------------------------------------------------------------ strings
None == <<>>
Some(x) == <<x>>

Min(a, b) == IF a <= b THEN a ELSE b

\* Python str.startswith
StartsWith(s, p) ==
    /\ Len(p) <= Len(s)
    /\ \A j \in 1..Len(p) : s[j] = p[j]

\* Python str.endswith
EndsWith(s, p) ==
    /\ Len(p) <= Len(s)
    /\ \A j \in 1..Len(p) : s[Len(s) - Len(p) + j] = p[j]

\* Python "token in name"
Contains(s, t) ==
    \E k \in 0..(Len(s) - Len(t)) : \A j \in 1..Len(t) : s[k + j] = t[j]

\* Python str < str: lexicographic by code point, a proper prefix is smaller
StrLt(a, b) ==
    \E k \in 0..Min(Len(a), Len(b)) :
        /\ \A j \in 1..k : a[j] = b[j]
        /\ \/ (k = Len(a) /\ k < Len(b))
           \/ (k < Len(a) /\ k < Len(b) /\ a[k + 1] < b[k + 1])

\* Python tuple comparison of two (ts_iso, shortcode) identities
IdentLt(x, y) == StrLt(x[1], y[1]) \/ (x[1] = y[1] /\ StrLt(x[2], y[2]))
IdentLe(x, y) == x = y \/ IdentLt(x, y)

\* re.IGNORECASE folding of one character
Lower(c) == IF c \in 65..90 THEN c + 32 ELSE c
LowerStr(s) == [j \in 1..Len(s) |-> Lower(s[j])]

\* file name extensions as written by the content source
EXT_JPG == <<46, 106, 112, 103>>
EXT_MP4 == <<46, 109, 112, 52>>
EXT_JSON == <<46, 106, 115, 111, 110>>
\* MEDIA_EXTS and META_EXTS, restricted to the extensions that occur
MEDIA_EXTS == {EXT_JPG, EXT_MP4}
META_EXTS == {EXT_JSON}

\* os.path.splitext(fname)[1].lower(): the text from the last dot on
SplitExt(fn) ==
    LET dots == {j \in 2..Len(fn) : fn[j] = 46}
    IN  IF dots = {} THEN <<>>
        ELSE LET d == CHOOSE j \in dots : \A k \in dots : k <= j
             IN  LowerStr(SubSeq(fn, d, Len(fn)))

\* ----------------------------------------------------------------- catalogue
\* The content source's post objects.  Post i was taken at time i; its
\* shortcode is one letter; every second post is a video.
Items == 1..NumItems
Shortcode(i) == <<96 + i>>
DateUtc(i) == i
IsVideo(i) == i % 2 = 0

\* two decimal digits of a time
Digits(t) == <<48 + (t \div 10), 48 + (t % 10)>>

\* dt.strftime("%Y-%m-%d_%H-%M-%S_UTC")
expected_basename_from_post(i) == Digits(DateUtc(i)) \o <<95, 85, 84, 67>>

\* dt.isoformat() of a UTC datetime
IsoFormat(t) == Digits(t) \o <<43, 48, 48>>

\* get_post_identifiers: <<basename, shortcode, ts_iso>>
get_post_identifiers(i) ==
    LET shortcode == Shortcode(i)
        bn == expected_basename_from_post(i)
        basename == IF bn = <<>> THEN shortcode ELSE bn
    IN  <<basename, shortcode, IsoFormat(DateUtc(i))>>

ident_tuple(ts_iso, shortcode) == <<ts_iso, shortcode>>

\* identity of a post as download_posts_iter computes it
IdentOf(i) ==
    LET ids == get_post_identifiers(i) IN ident_tuple(ids[3], ids[2])

\* names of the files the content source writes for a post
MediaName(i) ==
    expected_basename_from_post(i) \o (IF IsVideo(i) THEN EXT_MP4 ELSE EXT_JPG)
JsonName(i) == expected_basename_from_post(i) \o EXT_JSON

\* ------------------------------------------------ disk existence checks
\* A profile's disk is [base, media, meta]: the names of the files in the
\* profile root, in media/ and in metadata/ (marker files are kept apart).

\* ^stem(?:_.+)?\.(?:ext|...)$ with re.IGNORECASE
PatMatch(stem, exts, fn) ==
    LET f == LowerStr(fn)
        s == LowerStr(stem)
    IN  \E e \in exts :
            /\ EndsWith(f, e)
            /\ LET mid == SubSeq(f, 1, Len(f) - Len(e))
               IN  /\ StartsWith(mid, s)
                   /\ \/ Len(mid) = Len(s)
                      \/ (Len(mid) >= Len(s) + 2 /\ mid[Len(s) + 1] = 95)

\* any_mp4_exists_for_post([base, media], shortcode, basename)
any_mp4_exists_for_post(d, shortcode, basename) ==
    \E fn \in d.base \cup d.media :
        PatMatch(shortcode, {EXT_MP4}, fn) \/ PatMatch(basename, {EXT_MP4}, fn)

\* any_media_exists_for_post([base, media], shortcode, basename)
any_media_exists_for_post(d, shortcode, basename) ==
    \E fn \in d.base \cup d.media :
        PatMatch(basename, MEDIA_EXTS, fn) \/ PatMatch(shortcode, MEDIA_EXTS, fn)

\* is_temp is false of every name the model writes; move_sorted moves each
\* file of the profile root into media/ or metadata/ by its extension
move_sorted(d) ==
    [base  |-> {fn \in d.base : SplitExt(fn) \notin MEDIA_EXTS \cup META_EXTS},
     media |-> d.media \cup {fn \in d.base : SplitExt(fn) \in MEDIA_EXTS},
     meta  |-> d.meta \cup {fn \in d.base :
                   SplitExt(fn) \notin MEDIA_EXTS /\ SplitExt(fn) \in META_EXTS}]

\* ------------------------------------------------------------ log guard
\* A profile's ledger is [central, local]: the filename column of
\* <MEDIA_LOG_ROOT>/<profile>_media_log.csv and of media/media_log.csv.
load_logged_filenames(lg) == IF lg.central # {} THEN lg.central ELSE lg.local

already_logged_by_basename(lg, basename) ==
    /\ basename # <<>>
    /\ \E name \in load_logged_filenames(lg) : StartsWith(name, basename)

already_logged_by_shortcode(lg, shortcode) ==
    /\ shortcode # <<>>
    /\ \E name \in load_logged_filenames(lg) : Contains(name, shortcode)

already_logged_post(lg, basename, shortcode) ==
    already_logged_by_basename(lg, basename) \/ already_logged_by_shortcode(lg, shortcode)

already_logged_wrapper(i, lg) ==
    LET ids == get_post_identifiers(i) IN already_logged_post(lg, ids[1], ids[2])

\* --------------------------------------------------------------- markers
\* A marker file holds None (no file) or Some(<<ts, shortcode>>).
load_marker(mf) ==
    IF mf = None THEN None
    ELSE IF mf[1][1] = <<>> THEN None
    ELSE Some(<<mf[1][1], mf[1][2]>>)

save_marker(ts_iso, shortcode) == Some(<<ts_iso, shortcode>>)

\* datetime.strptime of "<digits>_UTC", None when the name does not match
ParseBasename(stem) ==
    IF /\ Len(stem) >= 6
       /\ stem[1] \in 48..57 /\ stem[2] \in 48..57
       /\ SubSeq(stem, 3, 6) = <<95, 85, 84, 67>>
    THEN Some((stem[1] - 48) * 10 + (stem[2] - 48))
    ELSE None

\* the "shortcode" a metadata JSON written by the content source holds
JsonShortcode(fn) ==
    IF \E i \in Items : JsonName(i) = fn
    THEN Shortcode(CHOOSE i \in Items : JsonName(i) = fn)
    ELSE <<>>

\* find_newest_from_disk with the comparison turned round: the least identity
find_newest_from_disk_oldest(d) ==
    LET jsons == {fn \in d.meta : EndsWith(LowerStr(fn), EXT_JSON)}
        idents == {<<IsoFormat(ParseBasename(SubSeq(fn, 1, Len(fn) - Len(EXT_JSON)))[1]),
                     JsonShortcode(fn)>> :
                   fn \in {g \in jsons :
                       ParseBasename(SubSeq(g, 1, Len(g) - Len(EXT_JSON))) # None}}
    IN  IF idents = {} THEN None
        ELSE Some(CHOOSE x \in idents : \A y \in idents : IdentLe(x, y))

\* _find_newest_from_disk: the greatest (iso, shortcode) over metadata/*.json
find_newest_from_disk(d) ==
    LET jsons == {fn \in d.meta : EndsWith(LowerStr(fn), EXT_JSON)}
        idents == {<<IsoFormat(ParseBasename(SubSeq(fn, 1, Len(fn) - Len(EXT_JSON)))[1]),
                     JsonShortcode(fn)>> :
                   fn \in {g \in jsons :
                       ParseBasename(SubSeq(g, 1, Len(g) - Len(EXT_JSON))) # None}}
    IN  IF idents = {} THEN None
        ELSE Some(CHOOSE x \in idents : \A y \in idents : IdentLe(y, x))

\* ------------------------------------------------------ sessions & rotation
\* The session manager is [idx, L, since, rotate_interval]: the active
\* credential index (0-based), the credential the active loader was built
\* from, the ticks elapsed since last_rotate (saturating at RotateTicks) and
\* the interval in force.
make_loader(idx) == idx

\* "self.rotate_interval = max(10, int(rotate_interval_sec))": the interval in
\* force, in ticks, for the configured one; RotateTicks ticks are the floor
rotate_interval_of(configured) == IF configured > RotateTicks THEN configured ELSE RotateTicks

SessionManager_init(rotate_interval_sec) ==
    [idx |-> 0, L |-> make_loader(0), since |-> 0,
     rotate_interval |-> rotate_interval_of(rotate_interval_sec)]

\* maybe_time_rotate leaving the rotation clock as it is
maybe_time_rotate_keeps_clock(s, n) ==
    IF s.since >= s.rotate_interval /\ n > 1
    THEN [s EXCEPT !.idx = (s.idx + 1) % n, !.L = make_loader((s.idx + 1) % n)]
    ELSE s

maybe_time_rotate(s, n) ==
    IF s.since >= s.rotate_interval /\ n > 1
    THEN [s EXCEPT !.idx = (s.idx + 1) % n, !.L = make_loader((s.idx + 1) % n), !.since = 0]
    ELSE s

\* rotate_on_error reporting a rotation whenever it is called
rotate_on_error_always_true(s, n) ==
    IF n <= 1 THEN <<TRUE, s>>
    ELSE <<TRUE, [s EXCEPT !.idx = (s.idx + 1) % n, !.L = make_loader((s.idx + 1) % n), !.since = 0]>>

\* rotate_on_error moving the index without building the loader of the new one
rotate_on_error_stale_loader(s, n) ==
    IF n <= 1 THEN <<FALSE, s>>
    ELSE <<TRUE, [s EXCEPT !.idx = (s.idx + 1) % n, !.since = 0]>>

\* rotate_on_error: <<returned flag, session manager afterwards>>
rotate_on_error(s, n) ==
    IF n <= 1 THEN <<FALSE, s>>
    ELSE <<TRUE, [s EXCEPT !.idx = (s.idx + 1) % n, !.L = make_loader((s.idx + 1) % n), !.since = 0]>>

\* time.sleep / time spent in a network call: d ticks pass
Elapse(s, d) == [s EXCEPT !.since = Min(s.since + d, s.rotate_interval)]

Pow2(k) == IF k <= 0 THEN 1 ELSE IF k = 1 THEN 2 ELSE IF k = 2 THEN 4 ELSE IF k = 3 THEN 8 ELSE IF k = 4 THEN 16 ELSE 32

\* safe_sleep_backoff growing by the base with every attempt
safe_sleep_backoff_linear(attempt) == Min(BACKOFF_BASE_SEC * attempt, BACKOFF_CAP_SEC)

\* _safe_sleep_backoff: the delay in seconds
safe_sleep_backoff(attempt) ==
    Min(BACKOFF_BASE_SEC * Pow2(IF attempt - 1 > 0 THEN attempt - 1 ELSE 0), BACKOFF_CAP_SEC)

\* ------------------------------------------------------------ error classes
\* Exceptions the content source raises.  IsHardRotate is membership in
\* HARD_ROTATE_ERRORS (by subclass); Is500 is the message / type test that
\* precedes the direct video fallback.
LoginRequired == "LoginRequiredException"
TooManyRequests == "TooManyRequestsException"
ConnectionErr == "ConnectionException"
Connection500 == "ConnectionException: 500 Internal Server Error"
NotFound == "QueryReturnedNotFoundException"
BadResponse == "BadResponseException"
PrivateProfile == "PrivateProfileNotFollowedException"
ProfileNotExists == "ProfileNotExistsException"
OtherError == "Exception"
TypeError == "TypeError"
Other500 == "Exception: 500 Internal Server Error"

HARD_ROTATE_ERRORS ==
    {LoginRequired, TooManyRequests, ConnectionErr, Connection500, NotFound, BadResponse}
\* every exception treated as one of the rotate class
IsHardRotate_any(e) == TRUE

IsHardRotate(e) == e \in HARD_ROTATE_ERRORS

\* ------------------------------------------------------------------- state
VARIABLES
    cfg,        \* CLI: [mode, nsess, the four single-stream flags, after, before, interval]
    profiles,   \* the profile list of the run
    posts,      \* content source: posts[p][stream], newest first (pinned posts lead)
    ledger,     \* ledger[p] = [central, local]
    disk,       \* disk[p] = [base, media, meta]
    markerFile, \* markerFile[p][stream]: content of latest_seen_<stream>.json
    sman,       \* the SessionManager
    run,        \* number of the current run of main()
    pc,         \* position of the run
    pidx,       \* index of the current profile in profiles
    pp,         \* process_profile frame: attempts and the five counts
    kind,       \* stream being probed / harvested
    probe_i,    \* _bounded_probe loop variable
    dl,         \* download_posts_iter frame
    one,        \* _download_one_post frame
    res,        \* how the last _download_one_post call of the harvest ended
    calls,      \* profiles process_profile was called for in this run
    ret,        \* what the process_profile calls of this run returned, and why
    fetched_ok, \* fetched_ok[p][stream]: posts whose download_post succeeded so far
    marker0,    \* the marker files as they were when the run started
    last,       \* the exception the last step caught, and whether it called rotate_on_error
    budget,     \* failures the environment may still inject in this behaviour
    unit,       \* a function of the program applied on its own: its arguments and result
    older,      \* the run of the older downloader, insta_download-22
    sessions_txt \* the credential file: None, or the sequence of its lines

vars == <<cfg, profiles, posts, ledger, disk, markerFile, sman, run, pc, pidx, pp,
          kind, probe_i, dl, one, res, calls, ret, fetched_ok, marker0, last, budget,
          unit, older, sessions_txt>>

Profiles == {"p1", "p2"}
Streams == {"feed", "reels"}

\* k, k-1, ..., 1
RECURSIVE Desc(_)
Desc(k) == IF k <= 0 THEN <<>> ELSE <<k>> \o Desc(k - 1)

CurProfile == profiles[pidx]

\* ------------------------------------------------------------ date filter
\* _post_passes_date_filter letting the posts at the bounds through
post_passes_date_filter_inclusive(i) ==
    IF cfg.after = None /\ cfg.before = None THEN TRUE
    ELSE IF cfg.after # None /\ DateUtc(i) < cfg.after[1] THEN FALSE
    ELSE IF cfg.before # None /\ DateUtc(i) > cfg.before[1] THEN FALSE
    ELSE TRUE

\* _post_passes_date_filter with DATE_AFTER_UTC = cfg.after, DATE_BEFORE_UTC = cfg.before
post_passes_date_filter(i) ==
    IF cfg.after = None /\ cfg.before = None THEN TRUE
    ELSE IF cfg.after # None /\ DateUtc(i) <= cfg.after[1] THEN FALSE
    ELSE IF cfg.before # None /\ DateUtc(i) >= cfg.before[1] THEN FALSE
    ELSE TRUE

\* ------------------------------------------------------------ stage gates
\* process_profile's conditions on mode and the single-stream flags
GateFeed == ~cfg.reels_only /\ ~cfg.stories_only /\ ~cfg.highlights_only
GateReels == (cfg.mode \in {"daily", "init"} /\ ~cfg.feed_only) \/ cfg.reels_only
GateStories == cfg.mode = "all" \/ cfg.stories_only
GateHighlights == cfg.mode = "all" \/ cfg.highlights_only

\* the stage process_profile enters after `stage`
StageAfter(stage) ==
    IF stage = "start" /\ GateFeed THEN "feed"
    ELSE IF stage \in {"start", "feed"} /\ GateReels THEN "reels"
    ELSE IF stage \in {"start", "feed", "reels"} /\ GateStories THEN "stories"
    ELSE IF stage \in {"start", "feed", "reels", "stories"} /\ GateHighlights THEN "highlights"
    ELSE "finish"

PcOfStage(stage) == IF stage \in Streams THEN "probe" ELSE stage
KindOfStage(stage) == IF stage \in Streams THEN stage ELSE kind

ZeroCounts ==
    [attempts |-> 0, feed_count |-> 0, reels_count |-> 0, stories_count |-> 0,
     highlights_count |-> 0, rescued_count |-> 0]

FiveCounts(f) ==
    <<f.feed_count, f.reels_count, f.stories_count, f.highlights_count, f.rescued_count>>

NoDl ==
    [pos |-> 1, marker |-> None, max_seen |-> None, top_ident_seen |-> None,
     downloaded_this_run |-> 0, consec_seen |-> 0, count |-> 0, rescued_total |-> 0,
     got |-> {}]

NoOne == [attempt |-> 1, L |-> 0, rescued |-> 0]

\* no exception caught; exception e caught at `at`, rotate_on_error called or not
\* the exception classes _bounded_probe answers with rotate_on_error
probe_rotates(e) == e \in {TooManyRequests, BadResponse, ConnectionErr, Connection500, NotFound}

\* Does the except clause that catches e at `at` call _log_line?  The clauses
\* for HARD_ROTATE_ERRORS of _download_one_post (reached when the fallback did
\* not return: rot) and of process_profile do, and so do the last clause of
\* process_profile and the first of _bounded_probe; the clause for a private
\* profile, the "except Exception" clauses of _download_one_post and
\* _bounded_probe, _probe_iter, download_stories and download_highlights do not.
writes_log(at, e, rot) ==
    IF at \in {"profile", "iter"} THEN e # PrivateProfile
    ELSE IF at = "probe_factory" THEN probe_rotates(e)
    ELSE IF at = "fetch" THEN rot
    ELSE FALSE

NoErr == [at |-> "none", err |-> "none", rot |-> FALSE, k |-> 0, slept |-> 0, logged |-> FALSE]
Caught(at, e, rot) ==
    [at |-> at, err |-> e, rot |-> rot, k |-> 0, slept |-> 0, logged |-> writes_log(at, e, rot)]
\* ... by the attempt number k, answered with a backoff of secs seconds (0: none)
Slept(c, k, secs) == [c EXCEPT !.k = k, !.slept = secs]

\* ------------------------------------------------- process_profile: handlers
\* return feed_count, ..., rescued_count: back in main's loop, next profile
ProfileReturn(f, cause) ==
    /\ pp' = ZeroCounts
    /\ ret' = Append(ret, [counts |-> FiveCounts(f), cause |-> cause, attempts |-> f.attempts])
    /\ pidx' = pidx + 1
    /\ pc' = "main_loop"

\* profile_retry without the cap on the attempts
profile_retry_uncapped(rotated, attempts) == rotated

\* "if sman.rotate_on_error() and attempts < MAX_RETRIES_PROFILE": retry?
profile_retry(rotated, attempts) == rotated /\ attempts < MAX_RETRIES_PROFILE

\* the seconds process_profile sleeps after exception e in attempt f.attempts
profile_backoff(e, s, f) ==
    IF IsHardRotate(e) /\ profile_retry(rotate_on_error(s, cfg.nsess)[1], f.attempts)
    THEN safe_sleep_backoff(Min(f.attempts, 3))
    ELSE 0

\* process_profile_except without the final "except Exception" clause: an
\* unexpected exception leaves process_profile and main
process_profile_except_propagating(e, s, f) ==
    IF IsHardRotate(e)
    THEN LET r == rotate_on_error(s, cfg.nsess)
         IN  IF profile_retry(r[1], f.attempts)
             THEN /\ sman' = r[2]
                  /\ pp' = f
                  /\ pc' = "pp_attempt"
                  /\ UNCHANGED <<pidx, ret>>
             ELSE /\ sman' = r[2]
                  /\ ProfileReturn(f, "hard")
    ELSE IF e = PrivateProfile
    THEN /\ sman' = s
         /\ ProfileReturn(f, "private")
    ELSE /\ sman' = s
         /\ pp' = f
         /\ pc' = "aborted"
         /\ UNCHANGED <<pidx, ret>>

\* The except clauses of process_profile, for exception e raised when the
\* session manager is s and the frame is f.  Sets sman, pp, ret, pidx, pc.
process_profile_except(e, s, f) ==
    IF IsHardRotate(e)
    THEN LET r == rotate_on_error(s, cfg.nsess)
         IN  IF profile_retry(r[1], f.attempts)
             THEN /\ sman' = r[2]
                  /\ pp' = f
                  /\ pc' = "pp_attempt"
                  /\ UNCHANGED <<pidx, ret>>
             ELSE /\ sman' = r[2]
                  /\ ProfileReturn(f, "hard")
    ELSE /\ sman' = s
         /\ ProfileReturn(f, IF e = PrivateProfile THEN "private" ELSE "error")

\* errors Profile.from_username and the iteration of a stream can raise
ProfileErrors == {ConnectionErr, LoginRequired, PrivateProfile, ProfileNotExists}
IterErrors == {ConnectionErr, OtherError}

\* the failures the environment can inject now, out of the set errs
Inject(errs) == IF budget > 0 THEN errs ELSE {}
\* The ticks that may have passed since the last look at the rotation clock;
\* with one credential the clock is never acted on and is left at rest.
Ticks == IF cfg.nsess > 1 THEN 0..1 ELSE {0}

\* main: "for profile in profiles" calls process_profile, then logs RUN END
MainLoop ==
    /\ pc = "main_loop"
    /\ IF pidx <= Len(profiles)
       THEN /\ pc' = "pp_attempt"
            /\ pp' = ZeroCounts
            /\ calls' = Append(calls, profiles[pidx])
       ELSE /\ pc' = "end"
            /\ UNCHANGED <<pp, calls>>
    /\ last' = NoErr
    /\ UNCHANGED <<unit, older, sessions_txt>>
    /\ UNCHANGED <<marker0, cfg, profiles, posts, ledger, disk, markerFile, sman, run, pidx,
                   kind, probe_i, dl, one, res, ret, fetched_ok, budget>>

\* process_profile: one pass of "while True" up to the first stage
ProfileAttempt ==
    /\ pc = "pp_attempt"
    /\ \E d \in Ticks, out \in {"ok"} \cup Inject(ProfileErrors) :
         LET f == [pp EXCEPT !.attempts = @ + 1]
             s == maybe_time_rotate(Elapse(sman, d), cfg.nsess)
             stage == StageAfter("start")
         IN  /\ budget' = IF out = "ok" THEN budget ELSE budget - 1
             /\ last' = IF out = "ok" THEN NoErr ELSE Slept(Caught("profile", out, IsHardRotate(out)),
                                    f.attempts, profile_backoff(out, s, f))
             /\ IF out = "ok"
                THEN /\ pp' = f
                     /\ sman' = s
                     /\ pc' = PcOfStage(stage)
                     /\ kind' = KindOfStage(stage)
                     /\ probe_i' = 1
                     /\ UNCHANGED <<pidx, ret>>
                ELSE /\ process_profile_except(out, s, f)
                     /\ UNCHANGED <<kind, probe_i>>
    /\ UNCHANGED <<unit, older, sessions_txt>>
    /\ UNCHANGED <<marker0, cfg, profiles, posts, ledger, disk, markerFile, run, dl, one, res,
                   calls, fetched_ok>>

\* ------------------------------------------------------------------ probes

ProbeFactoryErrors == {ConnectionErr, LoginRequired}
\* errors next(it) can raise inside _probe_iter, which swallows them
ProbeNextErrors == {TooManyRequests}

\* "for i in range(1, tries + 1)": is there a next try?
probe_has_next_try_off_by_one(i) == i <= PROBE_TRIES

probe_has_next_try(i) == i < PROBE_TRIES

\* seed_from_disk writing over a marker that exists
seed_from_disk_overwriting(mf, d) ==
    LET disk_top == find_newest_from_disk(d)
    IN  IF disk_top # None THEN save_marker(disk_top[1][1], disk_top[1][2]) ELSE mf

\* the seconds _bounded_probe sleeps after try i failed: nothing when next(it)
\* raised (out = "next"), else by the except clause that caught e
probe_backoff(out, e, i, rotated) ==
    IF out = "next" THEN 0
    ELSE IF probe_rotates(e) /\ rotated THEN safe_sleep_backoff(Min(i, 3))
    ELSE safe_sleep_backoff(i)

\* "seed from disk (probe blocked)": the marker file after a failed probe
seed_from_disk(mf, d) ==
    IF load_marker(mf) = None
    THEN LET disk_top == find_newest_from_disk(d)
         IN  IF disk_top # None THEN save_marker(disk_top[1][1], disk_top[1][2]) ELSE mf
    ELSE mf

\* the frame download_posts_iter starts with
dl_start(mf) ==
    LET marker == load_marker(mf)
    IN  [pos |-> 1, marker |-> marker, max_seen |-> marker, top_ident_seen |-> None,
         downloaded_this_run |-> 0, consec_seen |-> 0, count |-> 0, rescued_total |-> 0,
         got |-> {}]

\* one try of _bounded_probe; on success download_posts_iter is entered, after
\* the last failed try the stream is skipped (and its marker seeded from disk)
ProbeTry ==
    /\ pc = "probe"
    /\ \E d \in Ticks,
          o \in {<<"ok", "none">>} \cup Inject(({"next"} \X ProbeNextErrors)
                                               \cup ({"factory"} \X ProbeFactoryErrors)) :
         LET p == CurProfile
             out == o[1]
             s0 == maybe_time_rotate(Elapse(sman, d), cfg.nsess)
             rot == out = "factory" /\ probe_rotates(o[2])
             s1 == IF rot THEN rotate_on_error(s0, cfg.nsess)[2] ELSE s0
             stage == StageAfter(kind)
         IN  /\ budget' = IF out = "ok" THEN budget ELSE budget - 1
             /\ last' = IF out = "ok" THEN NoErr ELSE Slept(Caught("probe_" \o out, o[2], rot), probe_i,
                                    probe_backoff(out, o[2], probe_i,
                                                  rotate_on_error(s0, cfg.nsess)[1]))
             /\ IF out = "ok"
                THEN /\ sman' = s0
                     /\ dl' = dl_start(markerFile[p][kind])
                     /\ pc' = "scan"
                     /\ UNCHANGED <<probe_i, kind, markerFile>>
                ELSE /\ sman' = s1
                     /\ IF probe_has_next_try(probe_i)
                        THEN /\ probe_i' = probe_i + 1
                             /\ UNCHANGED <<pc, kind, markerFile>>
                        ELSE /\ markerFile' = [markerFile EXCEPT ![p][kind] =
                                                  seed_from_disk(@, disk[p])]
                             /\ pc' = PcOfStage(stage)
                             /\ kind' = KindOfStage(stage)
                             /\ probe_i' = 1
                     /\ UNCHANGED dl
    /\ UNCHANGED <<unit, older, sessions_txt>>
    /\ UNCHANGED <<marker0, cfg, profiles, posts, ledger, disk, run, pidx, pp, one, res, calls,
                   ret, fetched_ok>>

\* ------------------------------------------------------ download_posts_iter
\* newer_top remembering the identity seen last instead of the newest
newer_top_last_seen(top, ident) == Some(ident)

\* "if top_ident_seen is None or ident > top_ident_seen"
newer_top(top, ident) ==
    IF top = None \/ IdentLt(top[1], ident) THEN Some(ident) ELSE top

\* boundary_check without the stop on crossing back after a download
boundary_check_streak_only(f, ident, is_daily) ==
    IF is_daily /\ f.marker # None
    THEN IF IdentLe(ident, f.marker[1])
         THEN <<f.consec_seen + 1 >= CONSEC_SEEN_STOP, f.consec_seen + 1>>
         ELSE <<FALSE, 0>>
    ELSE <<FALSE, f.consec_seen>>

\* the marker-based boundary logic: <<break?, consec_seen afterwards>>
boundary_check(f, ident, is_daily) ==
    IF is_daily /\ f.marker # None
    THEN IF IdentLe(ident, f.marker[1])
         THEN IF f.downloaded_this_run > 0
              THEN <<TRUE, f.consec_seen>>
              ELSE <<f.consec_seen + 1 >= CONSEC_SEEN_STOP, f.consec_seen + 1>>
         ELSE <<FALSE, 0>>
    ELSE <<FALSE, f.consec_seen>>

\* body of the two "fast skip" branches: <<break?, consec_seen afterwards>>
guard_skip(consec, downloaded, is_daily) ==
    IF is_daily /\ downloaded = 0
    THEN <<consec + 1 >= CONSEC_SEEN_STOP, consec + 1>>
    ELSE <<FALSE, consec>>

\* guard_hit without the disk probe
guard_hit_ledger_only(i, lg, d) == already_logged_wrapper(i, lg)

\* the log / disk guards of download_posts_iter
guard_hit(i, lg, d) ==
    LET ids == get_post_identifiers(i)
    IN  already_logged_wrapper(i, lg) \/ any_media_exists_for_post(d, ids[2], ids[1])

\* One pass of the loop body for post i that passed the date filter, up to
\* the call of _download_one_post: [next, f], next being "break", "continue"
\* or "download".
scan_item(f, i, lg, d, mode) ==
    LET ident == IdentOf(i)
        is_daily == mode = "daily"
        f1 == [f EXCEPT !.top_ident_seen = newer_top(@, ident)]
        b == boundary_check(f1, ident, is_daily)
        f2 == [f1 EXCEPT !.consec_seen = b[2]]
        g == guard_skip(f2.consec_seen, f2.downloaded_this_run, is_daily)
    IN  IF b[1] THEN [next |-> "break", f |-> f2]
        ELSE IF guard_hit(i, lg, d)
        THEN [next |-> IF g[1] THEN "break" ELSE "continue",
              f |-> [f2 EXCEPT !.consec_seen = g[2]]]
        ELSE [next |-> "download", f |-> f2]

\* one iteration of "for post in iterable", or its end
ScanItem ==
    /\ pc = "scan"
    /\ LET p == CurProfile
           sq == posts[p][kind]
       IN  IF dl.pos > Len(sq)
           THEN /\ pc' = "persist"
                /\ last' = NoErr
                /\ UNCHANGED <<sman, dl, one, pp, ret, pidx, budget>>
           ELSE \E d \in Ticks, out \in {"yield"} \cup Inject(IterErrors) :
                  LET s0 == maybe_time_rotate(Elapse(sman, d), cfg.nsess)
                      i == sq[dl.pos]
                      r == scan_item(dl, i, ledger[p], disk[p], cfg.mode)
                  IN  IF out # "yield"
                      THEN /\ process_profile_except(out, sman, pp)
                           /\ dl' = NoDl
                           /\ budget' = budget - 1
                           /\ last' = Slept(Caught("iter", out, IsHardRotate(out)),
                                          pp.attempts, profile_backoff(out, sman, pp))
                           /\ UNCHANGED one
                      ELSE IF ~post_passes_date_filter(i)
                      THEN /\ dl' = [dl EXCEPT !.pos = @ + 1]
                           /\ sman' = s0
                           /\ last' = NoErr
                           /\ UNCHANGED <<pc, one, pp, ret, pidx, budget>>
                      ELSE /\ sman' = s0
                           /\ last' = NoErr
                           /\ dl' = IF r.next = "continue"
                                    THEN [r.f EXCEPT !.pos = @ + 1] ELSE r.f
                           /\ pc' = IF r.next = "break" THEN "persist"
                                    ELSE IF r.next = "download" THEN "fetch" ELSE "scan"
                           /\ one' = IF r.next = "download"
                                     THEN [attempt |-> 1, L |-> s0.L, rescued |-> 0]
                                     ELSE one
                           /\ UNCHANGED <<pp, ret, pidx, budget>>
    /\ UNCHANGED <<unit, older, sessions_txt>>
    /\ UNCHANGED <<marker0, cfg, profiles, posts, ledger, disk, markerFile, run, kind, probe_i,
                   res, calls, fetched_ok>>

\* persist_marker seeding from the enumeration although a marker exists
persist_marker_reseed(f, mode, mf) ==
    IF mode \in {"daily", "all"}
    THEN IF /\ f.max_seen # None
            /\ (f.marker = None \/ IdentLt(f.marker[1], f.max_seen[1]))
            /\ f.downloaded_this_run > 0
         THEN save_marker(f.max_seen[1][1], f.max_seen[1][2])
         ELSE IF f.top_ident_seen # None /\ f.downloaded_this_run = 0
         THEN save_marker(f.top_ident_seen[1][1], f.top_ident_seen[1][2])
         ELSE mf
    ELSE mf

\* the marker file after the end of the loop ("Persist marker")
persist_marker(f, mode, mf) ==
    IF mode \in {"daily", "all"}
    THEN IF /\ f.max_seen # None
            /\ (f.marker = None \/ IdentLt(f.marker[1], f.max_seen[1]))
            /\ f.downloaded_this_run > 0
         THEN save_marker(f.max_seen[1][1], f.max_seen[1][2])
         ELSE IF f.marker = None /\ f.top_ident_seen # None /\ f.downloaded_this_run = 0
         THEN save_marker(f.top_ident_seen[1][1], f.top_ident_seen[1][2])
         ELSE mf
    ELSE mf

\* end of download_posts_iter: persist the marker, return (count, rescued_total)
\* to process_profile, which adds them up and goes on to the next stage
HarvestEnd ==
    /\ pc = "persist"
    /\ LET p == CurProfile
           stage == StageAfter(kind)
       IN  /\ markerFile' = [markerFile EXCEPT ![p][kind] = persist_marker(dl, cfg.mode, @)]
           /\ pp' = IF kind = "feed"
                    THEN [pp EXCEPT !.feed_count = @ + dl.count,
                                    !.rescued_count = @ + dl.rescued_total]
                    ELSE [pp EXCEPT !.reels_count = @ + dl.count,
                                    !.rescued_count = @ + dl.rescued_total]
           /\ pc' = PcOfStage(stage)
           /\ kind' = KindOfStage(stage)
           /\ probe_i' = 1
           /\ dl' = NoDl
           /\ res' = "none"
           /\ last' = NoErr
    /\ UNCHANGED <<unit, older, sessions_txt>>
    /\ UNCHANGED <<marker0, cfg, profiles, posts, ledger, disk, sman, run, pidx, one,
                   calls, ret, fetched_ok, budget>>

\* ------------------------------------------------------ _download_one_post
Is500(e) == e \in {Connection500, Other500}

\* errors L.download_post can raise
FetchErrors ==
    {ConnectionErr, Connection500, NotFound, BadResponse, PrivateProfile, OtherError, Other500}

\* every video post of the catalogue carries a video_url
HasVideoUrl(i) == IsVideo(i)

\* Files L.download_post leaves in the profile root when it reports success:
\* the metadata JSON and the media file; the content source may fail to
\* persist a video while the metadata write succeeds.
download_post_files(d, i, video_persisted) ==
    [d EXCEPT !.base = @ \cup {JsonName(i)}
                         \cup (IF ~IsVideo(i) \/ video_persisted THEN {MediaName(i)} ELSE {})]

\* ensure_post_videos, sv being the outcome of stream_save: <<disk, rescued>>
ensure_post_videos(d, i, sv) ==
    LET ids == get_post_identifiers(i)
    IN  IF IsVideo(i) /\ ~any_mp4_exists_for_post(d, ids[2], ids[1]) /\ HasVideoUrl(i) /\ sv
        THEN <<[d EXCEPT !.media = @ \cup {ids[1] \o EXT_MP4}], 1>>
        ELSE <<d, 0>>

\* try_fallback_video, sv being the outcome of stream_save: <<returned, disk, rescued>>
try_fallback_video(d, i, sv) ==
    LET ids == get_post_identifiers(i)
    IN  IF IsVideo(i) /\ HasVideoUrl(i) /\ ~any_mp4_exists_for_post(d, ids[2], ids[1]) /\ sv
        THEN <<TRUE, [d EXCEPT !.media = @ \cup {ids[1] \o EXT_MP4}], 1>>
        ELSE <<FALSE, d, 0>>

\* the message / type tests that lead to try_fallback_video
wants_fallback(e) == IF IsHardRotate(e) THEN Is500(e) \/ e = BadResponse ELSE Is500(e)

\* post_error_action giving up at once when no rotation took place
post_error_action_no_plain_retry(e, attempt, rotated) ==
    IF IsHardRotate(e)
    THEN IF rotated THEN "continue" ELSE "return_false"
    ELSE IF attempt < MAX_RETRIES_POST THEN "continue" ELSE "return_false"

\* What an except clause of _download_one_post does once the fallback did not
\* return: "continue" with the next attempt or "return_false".
post_error_action(e, attempt, rotated) ==
    IF IsHardRotate(e)
    THEN IF rotated THEN "continue"
         ELSE IF attempt < MAX_RETRIES_POST THEN "continue" ELSE "return_false"
    ELSE IF attempt < MAX_RETRIES_POST THEN "continue" ELSE "return_false"

\* the seconds _download_one_post sleeps after exception e in attempt `attempt`
post_backoff(e, attempt, rotated) ==
    IF IsHardRotate(e) /\ rotated THEN safe_sleep_backoff(Min(attempt, 3))
    ELSE IF attempt < MAX_RETRIES_POST THEN safe_sleep_backoff(attempt)
    ELSE 0

\* has_next_attempt of a loop without a cap
has_next_attempt_uncapped(attempt) == TRUE

\* "for attempt in range(1, MAX_RETRIES_POST + 1)": is there a next attempt?
has_next_attempt(attempt) == attempt < MAX_RETRIES_POST

\* iter_after_ok moving the in-memory marker along with the download
iter_after_ok_moving_marker(f, i, rescued) ==
    [f EXCEPT !.count = @ + 1,
              !.rescued_total = @ + rescued,
              !.downloaded_this_run = @ + 1,
              !.consec_seen = 0,
              !.max_seen = IF @ = None \/ IdentLt(@[1], IdentOf(i)) THEN Some(IdentOf(i)) ELSE @,
              !.marker = Some(IdentOf(i)),
              !.got = @ \cup {i},
              !.pos = @ + 1]

\* iter_after_ok keeping the last downloaded identity instead of the greatest
iter_after_ok_last_wins(f, i, rescued) ==
    [f EXCEPT !.count = @ + 1,
              !.rescued_total = @ + rescued,
              !.downloaded_this_run = @ + 1,
              !.consec_seen = 0,
              !.max_seen = Some(IdentOf(i)),
              !.got = @ \cup {i},
              !.pos = @ + 1]

\* download_posts_iter after "ok, rescued = _download_one_post(...)" with ok true
\* (got: the items downloaded in this harvest, kept for the marker claims)
iter_after_ok(f, i, rescued) ==
    [f EXCEPT !.count = @ + 1,
              !.rescued_total = @ + rescued,
              !.downloaded_this_run = @ + 1,
              !.consec_seen = 0,
              !.max_seen = IF @ = None \/ IdentLt(@[1], IdentOf(i)) THEN Some(IdentOf(i)) ELSE @,
              !.got = @ \cup {i},
              !.pos = @ + 1]

\* the outcomes of one download_post call and of the stream_save that may follow
FetchOutcomes(i) ==
    {[out |-> "ok", video |-> TRUE, sv |-> TRUE]}
    \cup (IF IsVideo(i)
          THEN {[out |-> "ok", video |-> FALSE, sv |-> b] : b \in Inject(BOOLEAN)}
          ELSE {})
    \cup {[out |-> e, video |-> TRUE, sv |-> FALSE] : e \in Inject(FetchErrors)}
    \cup (IF IsVideo(i)
          THEN {[out |-> e, video |-> TRUE, sv |-> TRUE] : e \in Inject({Connection500, BadResponse, Other500})}
          ELSE {})

\* One attempt of the retry loop of _download_one_post for the current post,
\* with what follows it: the return to download_posts_iter, the next attempt,
\* or the end of the loop without a return statement (the caller's tuple
\* unpacking then raises TypeError, which process_profile catches).
FetchAttempt ==
    /\ pc = "fetch"
    /\ \E o \in FetchOutcomes(posts[CurProfile][kind][dl.pos]) :
         LET p == CurProfile
             i == posts[p][kind][dl.pos]
             out == o.out
         IN  /\ budget' = IF out = "ok" /\ o.video THEN budget ELSE budget - 1
             /\ IF out = "ok"
                THEN LET d1 == download_post_files(disk[p], i, o.video)
                         ev == ensure_post_videos(d1, i, o.sv)
                     IN  /\ disk' = [disk EXCEPT ![p] = move_sorted(ev[1])]
                         /\ dl' = iter_after_ok(dl, i, one.rescued + ev[2])
                         /\ fetched_ok' = [fetched_ok EXCEPT ![p][kind] = @ \cup {i}]
                         /\ res' = "ok"
                         /\ pc' = "scan"
                         /\ one' = NoOne
                         /\ last' = NoErr
                         /\ UNCHANGED <<sman, pp, ret, pidx>>
                ELSE LET fb == IF wants_fallback(out)
                               THEN try_fallback_video(disk[p], i, o.sv)
                               ELSE <<FALSE, disk[p], 0>>
                         r == IF IsHardRotate(out) THEN rotate_on_error(sman, cfg.nsess)
                              ELSE <<FALSE, sman>>
                         act == post_error_action(out, one.attempt, r[1])
                     IN  /\ last' = Slept(Caught("fetch", out, IsHardRotate(out) /\ ~fb[1]), one.attempt,
                                       IF fb[1] THEN 0 ELSE post_backoff(out, one.attempt, r[1]))
                         /\ IF fb[1]
                             THEN /\ disk' = [disk EXCEPT ![p] = move_sorted(fb[2])]
                                  /\ dl' = iter_after_ok(dl, i, one.rescued + fb[3])
                                  /\ res' = "ok"
                                  /\ pc' = "scan"
                                  /\ one' = NoOne
                                  /\ UNCHANGED <<sman, pp, ret, pidx, fetched_ok>>
                             ELSE IF act = "return_false"
                             THEN /\ dl' = [dl EXCEPT !.pos = @ + 1]
                                  /\ res' = IF IsHardRotate(out) THEN "failed_hard" ELSE "failed"
                                  /\ sman' = r[2]
                                  /\ pc' = "scan"
                                  /\ one' = NoOne
                                  /\ UNCHANGED <<disk, pp, ret, pidx, fetched_ok>>
                             ELSE IF has_next_attempt(one.attempt)
                             THEN /\ sman' = r[2]
                                  /\ one' = [one EXCEPT !.attempt = @ + 1]
                                  /\ UNCHANGED <<disk, dl, res, pc, pp, ret, pidx, fetched_ok>>
                             ELSE /\ res' = "fell_through"
                                  /\ process_profile_except(TypeError, r[2], pp)
                                  /\ dl' = NoDl
                                  /\ one' = NoOne
                                  /\ UNCHANGED <<disk, fetched_ok>>
    /\ UNCHANGED <<unit, older, sessions_txt>>
    /\ UNCHANGED <<marker0, cfg, profiles, posts, ledger, markerFile, run, kind, probe_i, calls>>

\* ------------------------------------------------------ stories, highlights
\* download_stories: n items downloaded; a hard error on the way rotates
Stories ==
    /\ pc = "stories"
    /\ \E n \in 0..1, hard \in {FALSE} \cup Inject({TRUE}), d \in Ticks :
         LET s0 == maybe_time_rotate(Elapse(sman, d), cfg.nsess)
             stage == StageAfter("stories")
         IN  /\ sman' = IF hard THEN rotate_on_error(s0, cfg.nsess)[2] ELSE s0
             /\ budget' = IF hard THEN budget - 1 ELSE budget
             /\ last' = IF hard
                         THEN Slept(Caught("stories", LoginRequired, TRUE), 1, safe_sleep_backoff(1))
                         ELSE NoErr
             /\ pp' = [pp EXCEPT !.stories_count = @ + n]
             /\ pc' = PcOfStage(stage)
    /\ UNCHANGED <<unit, older, sessions_txt>>
    /\ UNCHANGED <<marker0, cfg, profiles, posts, ledger, disk, markerFile, run, pidx, kind,
                   probe_i, dl, one, res, calls, ret, fetched_ok>>

\* download_highlights: n items downloaded; a hard error on the way rotates
Highlights ==
    /\ pc = "highlights"
    /\ \E n \in 0..1, hard \in {FALSE} \cup Inject({TRUE}), d \in Ticks :
         LET s0 == maybe_time_rotate(Elapse(sman, d), cfg.nsess)
         IN  /\ sman' = IF hard THEN rotate_on_error(s0, cfg.nsess)[2] ELSE s0
             /\ budget' = IF hard THEN budget - 1 ELSE budget
             /\ last' = IF hard
                         THEN Slept(Caught("highlights", LoginRequired, TRUE), 1, safe_sleep_backoff(1))
                         ELSE NoErr
             /\ pp' = [pp EXCEPT !.highlights_count = @ + n]
             /\ pc' = "finish"
    /\ UNCHANGED <<unit, older, sessions_txt>>
    /\ UNCHANGED <<marker0, cfg, profiles, posts, ledger, disk, markerFile, run, pidx, kind,
                   probe_i, dl, one, res, calls, ret, fetched_ok>>

\* process_profile's last lines: move_sorted(base_path) and the return
ProfileFinish ==
    /\ pc = "finish"
    /\ disk' = [disk EXCEPT ![CurProfile] = move_sorted(@)]
    /\ ProfileReturn(pp, "done")
    /\ last' = NoErr
    /\ UNCHANGED <<unit, older, sessions_txt>>
    /\ UNCHANGED <<marker0, cfg, profiles, posts, ledger, markerFile, sman, run, kind, probe_i,
                   dl, one, res, calls, fetched_ok, budget>>

\* ------------------------------------------------------------- configurations
Modes == {"daily", "init", "all"}

\* the command line: mode, number of credentials, single-stream flag, date window
Config(mode, n, only, after, before) ==
    [mode |-> mode, nsess |-> n,
     feed_only |-> only = "feed", reels_only |-> only = "reels",
     stories_only |-> only = "stories", highlights_only |-> only = "highlights",
     after |-> after, before |-> before, interval |-> RotateTicks]

\* --------------------------------------------------------------------- worlds
\* What earlier runs and the ledger writer left behind for a profile: the
\* posts in S were retrieved; `how` says where that is recorded.
DiskOf(S) ==
    [base |-> {}, media |-> {MediaName(i) : i \in S}, meta |-> {JsonName(i) : i \in S}]

LedgerOf(S, how) ==
    IF how = "central" THEN [central |-> {MediaName(i) : i \in S}, local |-> {}]
    ELSE IF how = "local" THEN [central |-> {}, local |-> {MediaName(i) : i \in S}]
    ELSE IF how = "shortcode"
    THEN [central |-> {Shortcode(i) \o EXT_JPG : i \in S}, local |-> {}]
    ELSE [central |-> {}, local |-> {}]

\* the marker file naming post k (no file for k = 0)
MarkerOf(k) == IF k = 0 THEN None ELSE save_marker(IsoFormat(DateUtc(k)), Shortcode(k))

World(feed, reels, S, how, mk) ==
    [posts |-> [feed |-> feed, reels |-> reels],
     ledger |-> LedgerOf(S, how),
     disk |-> IF how = "disk" THEN DiskOf(S) ELSE DiskOf({}),
     marker |-> [feed |-> MarkerOf(mk), reels |-> None]]

FreshWorld == World(<<>>, <<>>, {}, "none", 0)

\* a profile with one post and nothing retrieved
OnePostWorld == World(<<1>>, <<>>, {}, "none", 0)

Scenario(c, profs, w1, w2, b) ==
    [cfg |-> c, profiles |-> profs, w |-> [p \in Profiles |-> IF p = "p1" THEN w1 ELSE w2],
     budget |-> b]

\* the feed of the posts 1..k, newest first, and the same with the oldest pinned
NewestFirst(k) == Desc(k)
Pinned(k) == IF k <= 1 THEN Desc(k) ELSE <<1>> \o SubSeq(Desc(k), 1, k - 1)
\* the video posts among 1..k, newest first
ReelsOf(k) == SelectSeq(Desc(k), IsVideo)

\* Short feeds: none or all but the newest of the ShortLen posts retrieved
\* earlier, every mode
HarvestScenarios ==
    {Scenario(Config(m, n, "none", None, None), <<"p1">>,
              World(ws[1], ReelsOf(ShortLen), 1..h, ws[2], mk), FreshWorld, MaxFaults) :
        m \in Modes, n \in 1..2,
        ws \in {<<NewestFirst(ShortLen), "disk">>, <<Pinned(ShortLen), "central">>},
        h \in {0, ShortLen - 1}, mk \in {0, ShortLen - 1}}

\* A date window over a short feed
WindowScenarios ==
    {Scenario(Config(m, 1, "feed", Some(1), None), <<"p1">>,
              World(NewestFirst(ShortLen), <<>>, {}, "none", mk), FreshWorld, 1) :
        m \in {"daily", "init"}, mk \in {0, 1}}

\* Short feeds under every date window with the bounds at the oldest and the
\* newest post, nothing or everything retrieved before
BoundScenarios ==
    {Scenario(Config(m, 1, "none", a, b), <<"p1">>,
              World(NewestFirst(ShortLen), <<>>, S, "central", 0), FreshWorld, 1) :
        m \in Modes, a \in {None, Some(1)}, b \in {None, Some(ShortLen)},
        S \in {{}, 1..ShortLen}}

\* Recorded by shortcode or in the local ledger only; a marker newer than the feed
GuardScenarios ==
    {Scenario(Config("daily", 1, "feed", None, None), <<"p1">>,
              World(NewestFirst(ShortLen), <<>>, 1..h, how, mk), FreshWorld, 1) :
        how \in {"shortcode", "local"}, h \in {2, ShortLen}, mk \in {2, ShortLen + 1}}

\* A long feed behind the marker: every post recorded, or none
StreakScenarios ==
    {Scenario(Config("daily", 1, "feed", None, None), <<"p1">>,
              World(NewestFirst(NumItems), <<>>, S, how, NumItems), FreshWorld, b) :
        S \in {1..NumItems}, how \in {"central", "disk"}, b \in {0}}
    \cup {Scenario(Config("daily", 1, "feed", None, None), <<"p1">>,
                   World(NewestFirst(NumItems), <<>>, {}, "none", NumItems), FreshWorld,
                   MAX_RETRIES_POST * CONSEC_SEEN_STOP)}

\* One post and failures enough to use up every profile attempt
RetryScenarios ==
    {Scenario([Config("daily", n, "feed", None, None) EXCEPT !.interval = t], <<"p1">>,
              OnePostWorld, FreshWorld, MAX_RETRIES_PROFILE + 1) :
        n \in 1..2, t \in {0, RotateTicks}}

\* Blocked probes over a disk that holds metadata, without a marker or with
\* a marker newer than the disk
BlockedScenarios ==
    {Scenario(Config(m, n, "feed", None, None), <<"p1">>,
              World(NewestFirst(2), <<>>, 1..2, "disk", mk), FreshWorld, PROBE_TRIES) :
        m \in Modes, n \in 1..2, mk \in {0, ShortLen}}

\* A video post in feed and reels, nothing retrieved, and faults enough to
\* block one probe and to fail one fetch
RescueScenarios ==
    {Scenario(Config("daily", 1, "none", None, None), <<"p1">>,
              World(<<2>>, <<2>>, {}, "none", 0), FreshWorld, PROBE_TRIES + 1)}

\* Every mode with no or one single-stream flag, over a profile with one feed
\* post and one reel
FlagScenarios ==
    {Scenario(Config(m, 1, only, None, None), <<"p1">>,
              World(<<1>>, <<2>>, {}, "none", 0), FreshWorld, 1) :
        m \in Modes, only \in {"none", "feed", "reels", "stories", "highlights"}}

\* Two profiles
ListScenarios ==
    {Scenario(Config(m, n, "none", None, None), <<"p1", "p2">>,
              OnePostWorld, World(<<2>>, <<>>, 1..1, "disk", 1), MaxFaults) :
        m \in {"daily", "all"}, n \in 1..2}

Scenarios ==
    HarvestScenarios \cup WindowScenarios \cup GuardScenarios \cup StreakScenarios
    \cup RetryScenarios \cup BlockedScenarios \cup RescueScenarios \cup ListScenarios

\* ------------------------------------------------------------------- runs
\* main() up to its profile loop: a fresh SessionManager, nothing processed
\* A line of sessions.txt, by its form: empty, a comment, a cookie string with
\* or without a value for sessionid, "user|sid" with or without the sid,
\* "user sid", or a bare token.
SessionLines ==
    {"blank", "comment", "cookie", "cookie_empty", "user_sep_sid", "user_sep_empty",
     "user_sid", "bare"}

\* info.get("sessionid") of _parse_sessions_line(ln) is not empty
has_sessionid(ln) == ln \in {"cookie", "user_sep_sid", "user_sid", "bare"}

\* load_sessions returning an empty list where it should raise
load_sessions_lenient(file) ==
    IF file = None THEN [err |-> "none", entries |-> <<>>]
    ELSE [err |-> "none",
          entries |-> SelectSeq(file[1], LAMBDA ln : ln \notin {"blank", "comment"}
                                                     /\ has_sessionid(ln))]

\* load_sessions: the entries of the file, or the exception raised
load_sessions(file) ==
    IF file = None THEN [err |-> "FileNotFoundError", entries |-> <<>>]
    ELSE LET entries == SelectSeq(file[1], LAMBDA ln : ln \notin {"blank", "comment"}
                                                       /\ has_sessionid(ln))
         IN  IF entries = <<>> THEN [err |-> "RuntimeError", entries |-> <<>>]
             ELSE [err |-> "none", entries |-> entries]

\* no SessionManager is constructed yet
NoSman == [idx |-> 0, L |-> 0, since |-> 0, rotate_interval |-> 0]

\* a credential file with n usable entries
SessionsFile(n) == Some([k \in 1..n |-> "cookie"])

\* no function is applied on its own, and the older downloader does not run
NoUnit == [fn |-> "none"]
NoOlder == [pc |-> "none"]

\* what the scenario sc fixes: the command line, the world, the failures to come
ScenarioInit(sc) ==
    /\ cfg = sc.cfg
    /\ profiles = sc.profiles
    /\ posts = [p \in Profiles |-> sc.w[p].posts]
    /\ ledger = [p \in Profiles |-> sc.w[p].ledger]
    /\ disk = [p \in Profiles |-> sc.w[p].disk]
    /\ markerFile = [p \in Profiles |-> sc.w[p].marker]
    /\ marker0 = [p \in Profiles |-> sc.w[p].marker]
    /\ budget = sc.budget
    /\ run = 1
    /\ pidx = 1
    /\ pp = ZeroCounts
    /\ kind = "feed"
    /\ probe_i = 1
    /\ dl = NoDl
    /\ one = NoOne
    /\ res = "none"
    /\ calls = <<>>
    /\ ret = <<>>
    /\ last = NoErr
    /\ fetched_ok = [p \in Profiles |-> [s \in Streams |-> {}]]

InitFrom(scs) ==
    \E sc \in scs :
        /\ ScenarioInit(sc)
        /\ sman = SessionManager_init(sc.cfg.interval)
        /\ pc = "main_loop"
        /\ unit = NoUnit
        /\ older = NoOlder
        /\ sessions_txt = SessionsFile(sc.cfg.nsess)

Init == InitFrom(Scenarios)

\* main() up to the loop over the profiles: load_sessions and the construction
\* of the SessionManager; an exception of load_sessions leaves main
Startup ==
    /\ pc = "start"
    /\ LET r == load_sessions(sessions_txt)
       IN  IF r.err # "none"
           THEN /\ pc' = "aborted"
                /\ UNCHANGED <<cfg, sman>>
           ELSE /\ cfg' = [cfg EXCEPT !.nsess = Len(r.entries)]
                /\ sman' = SessionManager_init(cfg.interval)
                /\ pc' = "main_loop"
    /\ UNCHANGED <<profiles, posts, ledger, disk, markerFile, run, pidx, pp, kind, probe_i,
                   dl, one, res, calls, ret, fetched_ok, marker0, last, budget, unit, older,
                   sessions_txt>>

\* The program is started again, in any mode, over what the last run left;
\* the failures of a behaviour all fall into its first run.
NewRun ==
    /\ pc = "end"
    /\ run < MaxRuns
    /\ \E m \in Modes : cfg' = [cfg EXCEPT !.mode = m]
    /\ run' = run + 1
    /\ sman' = SessionManager_init(cfg.interval)
    /\ pc' = "main_loop"
    /\ pidx' = 1
    /\ pp' = ZeroCounts
    /\ kind' = "feed"
    /\ calls' = <<>>
    /\ ret' = <<>>
    /\ last' = NoErr
    /\ res' = "none"
    /\ marker0' = markerFile
    /\ budget' = 0
    /\ UNCHANGED <<profiles, posts, ledger, disk, markerFile, probe_i, dl, one,
                   fetched_ok>>
    /\ UNCHANGED <<unit, older, sessions_txt>>

Next ==
    \/ MainLoop
    \/ ProfileAttempt
    \/ ProbeTry
    \/ ScanItem
    \/ FetchAttempt
    \/ HarvestEnd
    \/ Stories
    \/ Highlights
    \/ ProfileFinish
    \/ NewRun

Spec == Init /\ [][Next]_vars

\* Runs over lists of two profiles.  The program is sequential: whenever it
\* has a next step, it takes one.
ListSpec == InitFrom(ListScenarios) /\ [][Next]_vars /\ WF_vars(Next)

\* Runs with failures enough to exhaust the attempts of a profile; the program
\* is sequential and takes its next step whenever it has one
RetrySpec == InitFrom(RetryScenarios) /\ [][Next]_vars /\ WF_vars(Next)

\* Runs under every combination of mode and single-stream flag
FlagSpec == InitFrom(FlagScenarios) /\ [][Next]_vars


\* The credential files of at most MaxLines lines, and none
SessionFiles ==
    {None} \cup {Some(f) : f \in UNION {[1..n -> SessionLines] : n \in 0..MaxLines}}

\* One run of main from its start, in every mode and over every credential
\* file, for a profile with a post and a reel
StartInit ==
    \E m \in Modes, file \in SessionFiles :
        /\ ScenarioInit(Scenario(Config(m, 0, "none", None, None), <<"p1">>,
                                 World(<<1>>, <<2>>, {}, "none", 0), FreshWorld, 1))
        /\ sman = NoSman
        /\ pc = "start"
        /\ unit = NoUnit
        /\ older = NoOlder
        /\ sessions_txt = file

StartNext ==
    \/ Startup
    \/ MainLoop
    \/ ProfileAttempt
    \/ ProbeTry
    \/ ScanItem
    \/ FetchAttempt
    \/ HarvestEnd
    \/ Stories
    \/ Highlights
    \/ ProfileFinish

StartSpec == StartInit /\ [][StartNext]_vars

\* KeyboardInterrupt: no except clause of the engine catches it (they name
\* Exception and its subclasses), so it leaves main and the process exits.
\* Raised inside L.download_post it may come after files of the post were
\* written to the profile root.
Interrupt ==
    /\ pc \in {"main_loop", "pp_attempt", "probe", "scan", "fetch", "persist",
               "stories", "highlights", "finish"}
    /\ pc' = "interrupted"
    /\ IF pc = "fetch"
       THEN \E written \in BOOLEAN, video \in BOOLEAN :
              disk' = IF written
                      THEN [disk EXCEPT ![CurProfile] =
                               download_post_files(@, posts[CurProfile][kind][dl.pos], video)]
                      ELSE disk
       ELSE UNCHANGED disk
    /\ UNCHANGED <<cfg, profiles, posts, ledger, markerFile, sman, run, pidx, pp, kind,
                   probe_i, dl, one, res, calls, ret, fetched_ok, marker0, last, budget,
                   unit, older, sessions_txt>>

InterruptNext ==
    \/ Interrupt
    \/ MainLoop
    \/ ProfileAttempt
    \/ ProbeTry
    \/ ScanItem
    \/ FetchAttempt
    \/ HarvestEnd
    \/ Stories
    \/ Highlights
    \/ ProfileFinish
    \/ NewRun

\* Runs in every mode that may be interrupted at any point
InterruptSpec == InitFrom(FlagScenarios) /\ [][InterruptNext]_vars

\* Runs under every date window
WindowSpec == InitFrom(BoundScenarios) /\ [][Next]_vars

\* ======================================= the older downloader, insta_download-22
\* It runs over the same world (profiles, posts, ledger, disk, budget of
\* failures) with cfg.nsess session ids.  older is the frame of its main():
\* pc, the profile index pidx, retry, the session index idx, the position pos
\* in get_posts(), leading_seen_skips, downloaded_new_this_run, attempts,
\* count_attempted, and as history: err, the exception the last step caught
\* at profile level; got, the posts downloaded, and seen, the number of
\* already-logged posts met, in this pass over get_posts().

\* messages of the ConnectionException the content source raises
Msg401 == "401 Unauthorized"
Msg403 == "403 Forbidden"
Msg429 == "429 Too Many Requests"
MsgWait == "Please wait a few minutes before you try again."
Msg500 == "500 Internal Server Error"
OlderConnMsgs == {Msg401, Msg403, Msg429, MsgWait, Msg500}

\* every ConnectionException taken for an auth/throttle error
is_auth_throttle_any(msg) == TRUE

\* ("401" in msg) or ("403" in msg) or ("429" in msg) or ("Please wait a few minutes" in msg)
is_auth_throttle(msg) == msg \in {Msg401, Msg403, Msg429, MsgWait}

\* rotate_to_next_session: <<wrapped, state["idx"]>>
rotate_to_next_session(idx, n) ==
    IF idx + 1 < n THEN <<FALSE, idx + 1>> ELSE <<TRUE, 0>>

\* the branch for an already-logged post allowing one more leading skip
seen_action_one_more(downloaded_new_this_run, leading_seen_skips) ==
    IF ~downloaded_new_this_run /\ leading_seen_skips <= MAX_LEADING_SEEN_SKIPS
    THEN "continue" ELSE "break"

\* the branch for an already-logged post: skip it as pinned, or stop the profile
seen_action(downloaded_new_this_run, leading_seen_skips) ==
    IF ~downloaded_new_this_run /\ leading_seen_skips < MAX_LEADING_SEEN_SKIPS
    THEN "continue" ELSE "break"

OlderStart ==
    [pc |-> "for", pidx |-> 1, retry |-> 0, idx |-> 0, pos |-> 1,
     leading_seen_skips |-> 0, downloaded_new_this_run |-> FALSE, attempts |-> 0,
     count_attempted |-> 0, err |-> "none", got |-> {}, seen |-> 0]

OlderProfile == profiles[older.pidx]
OlderFeed == posts[OlderProfile].feed

\* "break" out of "while retry < MAX_RETRIES_PROFILE": the next profile
OlderNextProfile(o) == [o EXCEPT !.pc = "for", !.pidx = @ + 1]

\* The except clauses of the profile level for exception e; o is the frame
\* with err set.
older_profile_except(e, o) ==
    IF e \in {ProfileNotExists, PrivateProfile}
    THEN OlderNextProfile(o)
    ELSE IF is_auth_throttle(e)
    THEN LET r == rotate_to_next_session(o.idx, cfg.nsess)
         IN  [o EXCEPT !.pc = "while", !.idx = r[2],
                       !.retry = IF r[1] THEN @ + 1 ELSE @]
    ELSE [o EXCEPT !.pc = "crashed"]

\* "for profile in profiles": retry = 0, or the end of the run
OlderFor ==
    /\ older.pc = "for"
    /\ older' = IF older.pidx <= Len(profiles)
                THEN [older EXCEPT !.pc = "while", !.retry = 0, !.err = "none"]
                ELSE [older EXCEPT !.pc = "done", !.err = "none"]
    /\ UNCHANGED <<cfg, profiles, posts, ledger, disk, markerFile, sman, run, pc, pidx, pp,
                   kind, probe_i, dl, one, res, calls, ret, fetched_ok, marker0, last, budget,
                   unit, sessions_txt>>

\* "while retry < MAX_RETRIES_PROFILE: try: Profile.from_username(...)"
OlderWhile ==
    /\ older.pc = "while"
    /\ IF older.retry >= MAX_RETRIES_PROFILE
       THEN /\ older' = OlderNextProfile([older EXCEPT !.err = "none"])
            /\ UNCHANGED budget
       ELSE \E out \in {"ok"} \cup Inject({ProfileNotExists, PrivateProfile} \cup OlderConnMsgs) :
              IF out = "ok"
              THEN /\ older' = [older EXCEPT !.pc = "posts", !.pos = 1,
                                             !.leading_seen_skips = 0,
                                             !.downloaded_new_this_run = FALSE,
                                             !.count_attempted = 0,
                                             !.err = "none", !.got = {}, !.seen = 0]
                   /\ UNCHANGED budget
              ELSE /\ older' = older_profile_except(out, [older EXCEPT !.err = out])
                   /\ budget' = budget - 1
    /\ UNCHANGED <<cfg, profiles, posts, ledger, disk, markerFile, sman, run, pc, pidx, pp,
                   kind, probe_i, dl, one, res, calls, ret, fetched_ok, marker0, last,
                   unit, sessions_txt>>

\* "for post in inst_profile.get_posts()": the next post, or the end of the
\* loop with move_sorted(base_path); the iterator may raise
OlderPosts ==
    /\ older.pc = "posts"
    /\ \E out \in {"yield"} \cup Inject(OlderConnMsgs) :
         IF out # "yield"
         THEN /\ older' = older_profile_except(out, [older EXCEPT !.err = out])
              /\ budget' = budget - 1
              /\ UNCHANGED disk
         ELSE IF older.pos > Len(OlderFeed)
         THEN /\ disk' = [disk EXCEPT ![OlderProfile] = move_sorted(@)]
              /\ older' = OlderNextProfile([older EXCEPT !.err = "none"])
              /\ UNCHANGED budget
         ELSE LET i == OlderFeed[older.pos]
                  ids == get_post_identifiers(i)
              IN  IF already_logged_post(ledger[OlderProfile], ids[1], ids[2])
                  THEN IF seen_action(older.downloaded_new_this_run,
                                      older.leading_seen_skips) = "continue"
                       THEN /\ older' = [older EXCEPT !.leading_seen_skips = @ + 1,
                                                      !.pos = @ + 1, !.seen = @ + 1,
                                                      !.err = "none"]
                            /\ UNCHANGED <<disk, budget>>
                       ELSE /\ disk' = [disk EXCEPT ![OlderProfile] = move_sorted(@)]
                            /\ older' = OlderNextProfile([older EXCEPT !.seen = @ + 1,
                                                                       !.err = "none"])
                            /\ UNCHANGED budget
                  ELSE /\ older' = [older EXCEPT !.pc = "download", !.attempts = 0,
                                                 !.err = "none"]
                       /\ UNCHANGED <<disk, budget>>
    /\ UNCHANGED <<cfg, profiles, posts, ledger, markerFile, sman, run, pc, pidx, pp,
                   kind, probe_i, dl, one, res, calls, ret, fetched_ok, marker0, last,
                   unit, sessions_txt>>

\* "while attempts < MAX_RETRIES_POST: try: L.download_post(post, target=base_path)"
OlderDownload ==
    /\ older.pc = "download"
    /\ \E out \in {"ok"} \cup Inject({Msg500}) :
         LET i == OlderFeed[older.pos]
         IN  IF out = "ok"
             THEN LET d1 == download_post_files(disk[OlderProfile], i, TRUE)
                      n == older.count_attempted + 1
                      r == rotate_to_next_session(older.idx, cfg.nsess)
                  IN  /\ disk' = [disk EXCEPT ![OlderProfile] =
                                     ensure_post_videos(d1, i, TRUE)[1]]
                      /\ older' = [older EXCEPT !.pc = "posts", !.pos = @ + 1,
                                                !.count_attempted = n,
                                                !.downloaded_new_this_run = TRUE,
                                                !.idx = IF n % ROTATE_EVERY_POSTS = 0
                                                        THEN r[2] ELSE @,
                                                !.got = @ \cup {i}]
                      /\ UNCHANGED budget
             ELSE /\ older' = IF older.attempts + 1 < MAX_RETRIES_POST
                              THEN [older EXCEPT !.attempts = @ + 1]
                              ELSE [older EXCEPT !.attempts = @ + 1, !.pc = "posts",
                                                 !.pos = @ + 1]
                  /\ budget' = budget - 1
                  /\ UNCHANGED disk
    /\ UNCHANGED <<cfg, profiles, posts, ledger, markerFile, sman, run, pc, pidx, pp,
                   kind, probe_i, dl, one, res, calls, ret, fetched_ok, marker0, last,
                   unit, sessions_txt>>

\* A feed of OlderLen posts with any of them in the ledger, a second profile
\* with one new post, one session and one failure; and a profile with one
\* post, one or two sessions and failures enough to use up the retries
OlderScenarios ==
    {Scenario(Config("daily", 1, "none", None, None), <<"p1", "p2">>,
              World(NewestFirst(OlderLen), <<>>, S, "central", 0), OnePostWorld, 1) :
        S \in SUBSET (1..OlderLen)}
    \cup
    {Scenario(Config("daily", n, "none", None, None), <<"p1", "p2">>,
              World(<<2, 1>>, <<>>, {2}, "central", 0), OnePostWorld,
              n * MAX_RETRIES_PROFILE) : n \in 1..2}

OlderInit ==
    \E sc \in OlderScenarios :
        /\ ScenarioInit(sc)
        /\ sman = NoSman
        /\ pc = "older"
        /\ unit = NoUnit
        /\ sessions_txt = SessionsFile(sc.cfg.nsess)
        /\ older = OlderStart

OlderNext ==
    \/ OlderFor
    \/ OlderWhile
    \/ OlderPosts
    \/ OlderDownload

\* the older downloader is sequential and takes its next step whenever it has one
OlderSpec == OlderInit /\ [][OlderNext]_vars /\ WF_vars(OlderNext)

\* ============================================== functions applied on their own
\* A post as ensure_post_videos reads it: [item, nodes].  item is the post of
\* the catalogue that gives the basename, the shortcode and, for a post with
\* one medium, is_video; nodes is the is_video flag of every child that
\* get_sidecar_nodes yields (none for a GraphImage or a GraphVideo; the
\* is_video of a GraphSidecar itself is false).
SidecarPosts ==
    UNION {[item : {1}, nodes : [1..n -> BOOLEAN]] : n \in 1..MaxNodes}
SinglePosts == [item : {1, 2}, nodes : {<<>>}]
post_is_video(post) == post.nodes = <<>> /\ IsVideo(post.item)

\* f"{basename}_{i+1}.mp4"
side_name(basename, k) == basename \o <<95, 48 + k>> \o EXT_MP4

\* the video files a directory may hold for the posts above
VideoNames(i) ==
    LET bn == get_post_identifiers(i)[1]
    IN  {bn \o EXT_MP4} \cup {side_name(bn, k) : k \in 1..MaxNodes}

\* The sidecar loop of ensure_post_videos from child k on: r is
\* [d, rescued, attempts], attempts being the destinations stream_save was
\* called for, in order; sv[k] is the outcome of stream_save for child k.
RECURSIVE ensure_sidecar_always(_, _, _, _, _)
ensure_sidecar_always(r, nodes, basename, sv, k) ==
    IF k > Len(nodes) THEN r
    ELSE IF nodes[k]
         THEN ensure_sidecar_always(
                  [d |-> IF sv[k] THEN [r.d EXCEPT !.media = @ \cup {side_name(basename, k)}]
                         ELSE r.d,
                   rescued |-> r.rescued + (IF sv[k] THEN 1 ELSE 0),
                   attempts |-> Append(r.attempts, side_name(basename, k))],
                  nodes, basename, sv, k + 1)
         ELSE ensure_sidecar_always(r, nodes, basename, sv, k + 1)

RECURSIVE ensure_sidecar(_, _, _, _, _)
ensure_sidecar(r, nodes, basename, sv, k) ==
    IF k > Len(nodes) THEN r
    ELSE IF /\ nodes[k]
            /\ side_name(basename, k) \notin r.d.media \cup r.d.base
         THEN ensure_sidecar(
                  [d |-> IF sv[k] THEN [r.d EXCEPT !.media = @ \cup {side_name(basename, k)}]
                         ELSE r.d,
                   rescued |-> r.rescued + (IF sv[k] THEN 1 ELSE 0),
                   attempts |-> Append(r.attempts, side_name(basename, k))],
                  nodes, basename, sv, k + 1)
         ELSE ensure_sidecar(r, nodes, basename, sv, k + 1)

\* ensure_post_videos with every child video stream-saved, on disk or not
ensure_post_videos_of_always(d, post, sv0, sv) ==
    LET ids == get_post_identifiers(post.item)
        try == post_is_video(post) /\ ~any_mp4_exists_for_post(d, ids[2], ids[1])
        r0 == IF try
              THEN [d |-> IF sv0 THEN [d EXCEPT !.media = @ \cup {ids[1] \o EXT_MP4}] ELSE d,
                    rescued |-> IF sv0 THEN 1 ELSE 0,
                    attempts |-> <<ids[1] \o EXT_MP4>>]
              ELSE [d |-> d, rescued |-> 0, attempts |-> <<>>]
    IN  ensure_sidecar_always(r0, post.nodes, ids[1], sv, 1)

\* ensure_post_videos(L, post, media_dir, base_dir) over the disk d of the
\* profile, sv0 and sv[k] being the outcomes of stream_save for the main
\* video and for child k: [d, rescued, attempts]
ensure_post_videos_of(d, post, sv0, sv) ==
    LET ids == get_post_identifiers(post.item)
        try == post_is_video(post) /\ ~any_mp4_exists_for_post(d, ids[2], ids[1])
        r0 == IF try
              THEN [d |-> IF sv0 THEN [d EXCEPT !.media = @ \cup {ids[1] \o EXT_MP4}] ELSE d,
                    rescued |-> IF sv0 THEN 1 ELSE 0,
                    attempts |-> <<ids[1] \o EXT_MP4>>]
              ELSE [d |-> d, rescued |-> 0, attempts |-> <<>>]
    IN  ensure_sidecar(r0, post.nodes, ids[1], sv, 1)

\* The call "rescued += ensure_post_videos(L, post, media_dir, base_path)" that
\* follows a download_post that returned: the profile root and media/ hold any
\* of the video files of the post.
EnsureCalls ==
    {[fn |-> "ensure_post_videos", post |-> post, done |-> FALSE,
      d |-> [base |-> b, media |-> m, meta |-> {}],
      d1 |-> [base |-> b, media |-> m, meta |-> {}], rescued |-> 0, attempts |-> <<>>] :
        post \in SinglePosts \cup SidecarPosts,
        b \in SUBSET VideoNames(1), m \in SUBSET VideoNames(1)}

EnsurePostVideos ==
    /\ unit.fn = "ensure_post_videos"
    /\ ~unit.done
    /\ \E sv0 \in BOOLEAN, sv \in [1..Len(unit.post.nodes) -> BOOLEAN] :
         LET r == ensure_post_videos_of(unit.d, unit.post, sv0, sv)
         IN  unit' = [unit EXCEPT !.done = TRUE, !.d1 = r.d, !.rescued = r.rescued,
                                  !.attempts = r.attempts]
    /\ UNCHANGED <<cfg, profiles, posts, ledger, disk, markerFile, sman, run, pc, pidx, pp,
                   kind, probe_i, dl, one, res, calls, ret, fetched_ok, marker0, last, budget,
                   older, sessions_txt>>

\* get_post_identifiers of a post object with date_utc = date (None, or
\* Some(t)) and shortcode = sc (empty when the attribute is missing or empty):
\* <<basename, shortcode, ts_iso>>
UNKNOWN == <<117, 110, 107, 110, 111, 119, 110>>
post_identifiers(date, sc) ==
    LET shortcode == IF sc = <<>> THEN UNKNOWN ELSE sc
        bn == IF date = None THEN <<>> ELSE Digits(date[1]) \o <<95, 85, 84, 67>>
        basename == IF bn = <<>> THEN shortcode ELSE bn
        ts_iso == IF date = None THEN <<>> ELSE IsoFormat(date[1])
    IN  <<basename, shortcode, ts_iso>>

\* The identities the harvest can hand to save_marker: max_seen and
\* top_ident_seen are ident_tuple(ts_iso, shortcode) of a post it enumerated,
\* with or without date_utc and shortcode; the seed from disk is
\* (iso, sc or "") of a metadata file, whose timestamp is never empty.
PersistableIdents ==
    {[from |-> "post", ident |-> ident_tuple(post_identifiers(date, sc)[3],
                                             post_identifiers(date, sc)[2])] :
        date \in {None} \cup {Some(t) : t \in 1..2}, sc \in {<<>>, Shortcode(1)}}
    \cup
    {[from |-> "disk", ident |-> <<IsoFormat(t), sc>>] :
        t \in 1..2, sc \in {<<>>, Shortcode(1)}}

\* save_marker in one run, load_marker at the start of the next
MarkerCalls ==
    {[fn |-> "marker", from |-> x.from, ident |-> x.ident, done |-> FALSE,
      file |-> None, loaded |-> None] : x \in PersistableIdents}

MarkerRoundTrip ==
    /\ unit.fn = "marker"
    /\ ~unit.done
    /\ LET file == save_marker(unit.ident[1], unit.ident[2])
       IN  unit' = [unit EXCEPT !.done = TRUE, !.file = file, !.loaded = load_marker(file)]
    /\ UNCHANGED <<cfg, profiles, posts, ledger, disk, markerFile, sman, run, pc, pidx, pp,
                   kind, probe_i, dl, one, res, calls, ret, fetched_ok, marker0, last, budget,
                   older, sessions_txt>>

\* the functions applied on their own, with their arguments; the variables of
\* the engine stay at rest
UnitCalls == EnsureCalls \cup MarkerCalls

UnitInit ==
    \E c \in UnitCalls :
        /\ ScenarioInit(Scenario(Config("daily", 1, "feed", None, None), <<"p1">>,
                                 FreshWorld, FreshWorld, 0))
        /\ sman = SessionManager_init(RotateTicks)
        /\ pc = "unit"
        /\ older = NoOlder
        /\ sessions_txt = SessionsFile(1)
        /\ unit = c

UnitNext ==
    \/ EnsurePostVideos
    \/ MarkerRoundTrip

UnitSpec == UnitInit /\ [][UnitNext]_vars

\* ==================================================================== claims
\* the post the harvest is at, and the stream's sequence
CurSeq == posts[CurProfile][kind]
CurItem == CurSeq[dl.pos]

\* the order on persisted markers: no marker is below every marker
MarkerLe(a, b) == a = None \/ (b # None /\ IdentLe(a[1], b[1]))

\* C1 - Marker monotonicity: for every profile and stream, the persisted
\* marker is at every moment of a run at least the marker that was persisted
\* when the run started; an existing marker is never replaced by a smaller one.
C1_MarkerMonotone ==
    \A p \in Profiles, s \in Streams : MarkerLe(marker0[p][s], markerFile[p][s])

\* an existing marker was replaced by another one during the run
C1_Witness ==
    \E p \in Profiles, s \in Streams :
        marker0[p][s] # None /\ markerFile[p][s] # marker0[p][s]

\* C2 - Item skip-and-continue: whenever _download_one_post is left, it has
\* returned a result (success or failure) to download_posts_iter, whose loop goes
\* on with the next post of the stream; for any number of credentials and
\* every failure class.
C2_ItemSkipAndContinue ==
    [][(pc = "fetch" /\ pc' # "fetch")
         => (/\ pc' = "scan"
             /\ res' \in {"ok", "failed", "failed_hard"}
             /\ dl'.pos = dl.pos + 1)]_vars

\* C3 - No fetch for an already-retrieved item: download_post is never
\* invoked for a post that the ledger names (by basename prefix or by
\* shortcode) or that has a media file in the profile root or media directory.
C3_NoFetchWhenRetrieved ==
    pc = "fetch" =>
        LET ids == get_post_identifiers(CurItem)
        IN  /\ ~already_logged_post(ledger[CurProfile], ids[1], ids[2])
            /\ ~any_media_exists_for_post(disk[CurProfile], ids[2], ids[1])

\* the harvest has passed, without fetching it, a post that exactly one of the
\* two signals declares retrieved
C3_Witness ==
    /\ pc = "scan"
    /\ dl.pos > 1
    /\ LET i == CurSeq[dl.pos - 1]
           ids == get_post_identifiers(i)
       IN  /\ i \notin fetched_ok[CurProfile][kind]
           /\ res = "none"
           /\ already_logged_post(ledger[CurProfile], ids[1], ids[2])
              # any_media_exists_for_post(disk[CurProfile], ids[2], ids[1])

\* C4 - No re-fetch across runs: download_post is never invoked for a post of
\* a profile and stream for which it has succeeded before (its files having
\* been organized), in a profile-level retry or in a later run of any mode.
C4_NoRefetch ==
    pc = "fetch" => CurItem \notin fetched_ok[CurProfile][kind]

\* C5 - Early-stop streak: in daily mode with a marker, over posts that are
\* all at or behind the marker and of which none is newly downloaded, the scan
\* stops at the CONSEC_SEEN_STOP-th post exactly: not earlier, and it does not
\* run through a sequence of CONSEC_SEEN_STOP or more such posts.
C5_StreakExact ==
    (/\ pc = "persist"
     /\ cfg.mode = "daily"
     /\ cfg.after = None /\ cfg.before = None
     /\ dl.marker # None
     /\ dl.downloaded_this_run = 0
     /\ \A j \in 1..Min(dl.pos, Len(CurSeq)) : IdentLe(IdentOf(CurSeq[j]), dl.marker[1]))
    => IF dl.pos <= Len(CurSeq) THEN dl.pos = CONSEC_SEEN_STOP
       ELSE Len(CurSeq) < CONSEC_SEEN_STOP

\* C6 - Crossing back stops immediately: in daily mode with a marker, once a
\* post has been newly downloaded in this harvest, the next post the
\* enumeration yields that passes the date filter and is at or behind the
\* marker ends the scan: the step leads to the end of the harvest, not to a
\* fetch nor to a further post (unless the enumeration itself fails there).
C6_CrossingBackStops ==
    [][(/\ pc = "scan"
        /\ cfg.mode = "daily"
        /\ dl.marker # None
        /\ dl.downloaded_this_run > 0
        /\ dl.pos <= Len(CurSeq)
        /\ post_passes_date_filter(CurItem)
        /\ IdentLe(IdentOf(CurItem), dl.marker[1]))
       => (pc' = "persist" \/ (budget' < budget /\ pc' \in {"main_loop", "pp_attempt"}))]_vars

\* the scan was ended at a post at or behind the marker after a download,
\* with the streak counter at zero
C6_Witness ==
    /\ pc = "persist"
    /\ cfg.mode = "daily"
    /\ dl.marker # None
    /\ dl.downloaded_this_run > 0
    /\ dl.consec_seen = 0
    /\ dl.pos < Len(CurSeq)
    /\ IdentLe(IdentOf(CurItem), dl.marker[1])

\* C7 - Bulk (init) mode never writes markers: no step of an init-mode run
\* creates or modifies a marker file of any profile and stream.
C7_InitWritesNoMarker ==
    [][cfg.mode = "init" => markerFile' = markerFile]_vars

\* C8 - Rotation exhaustion at item level: with one credential every attempt
\* that fails leaves the session as it was; a failing post is tried again until
\* MAX_RETRIES_POST attempts are made, and only then reported as failed.
C8_PlainRetriesAtItemLevel ==
    [][(pc = "fetch" /\ cfg.nsess = 1)
         => (/\ sman' = sman
             /\ rotate_on_error(sman, cfg.nsess) = <<FALSE, sman>>
             /\ pc' = "fetch" => (one.attempt < MAX_RETRIES_POST /\ one'.attempt = one.attempt + 1)
             /\ pc' # "fetch" => (pc' = "scan" /\ res' \in {"ok", "failed", "failed_hard"})
             /\ (pc' # "fetch" /\ res' \in {"failed", "failed_hard"})
                   => one.attempt = MAX_RETRIES_POST)]_vars

\* with one credential a post was reported as failed after a hard-rotate-class
\* error, and the scan has gone on
C8_Witness ==
    /\ pc = "scan"
    /\ cfg.nsess = 1
    /\ res = "failed_hard"
    /\ dl.pos > 1

\* C9 - Profile-level retry without rotation: with one credential,
\* process_profile gives up on a profile because of a hard-rotate-class error
\* only when MAX_RETRIES_PROFILE attempts have been made.
C9_ProfileRetriedToCap ==
    cfg.nsess = 1 =>
        \A k \in 1..Len(ret) : ret[k].cause = "hard" => ret[k].attempts = MAX_RETRIES_PROFILE

\* process_profile was called once for each profile so far, in list order, and
\* every call but the running one has returned its five counts
CallsInOrder ==
    /\ calls = SubSeq(profiles, 1, Len(calls))
    /\ Len(ret) = (IF pc \in {"main_loop", "end"} THEN Len(calls) ELSE Len(calls) - 1)
    /\ Len(calls) = (IF pc \in {"main_loop", "end"} THEN pidx - 1 ELSE pidx)
    /\ pc = "end" => calls = profiles

\* C10 - One profile's failure never aborts the run: process_profile is called
\* once for each profile in list order, every call returns its five counts to
\* main's loop, and every run reaches its end record.
C10_RunNeverAborted ==
    /\ []CallsInOrder
    /\ (pc # "end") ~> (pc = "end")

\* the run of a list of two profiles ended although the first profile failed
C10_Witness ==
    /\ pc = "end"
    /\ Len(profiles) = 2
    /\ Len(ret) = 2
    /\ ret[1].cause \in {"hard", "error"}

\* --------------------------------------------------------------------------
\* The failure classes as the specification names them
\* terminal: the resource does not exist, or is private and inaccessible
TerminalClass == {NotFound, PrivateProfile, ProfileNotExists}
\* soft: a generic connectivity failure
SoftClass == {ConnectionErr}
\* hard-rotate: authentication expired, rate limited, malformed or server-error response
HardRotateClass == {LoginRequired, TooManyRequests, BadResponse, Connection500}

\* this step caught an exception (every injected exception spends one fault)
Failing == budget' < budget /\ last'.at # "none"

\* C11: a terminal-class failure (resource missing, or private) of an item or of
\* a profile is surfaced at its first occurrence: the step that catches it makes
\* no call to rotate_on_error, starts no further attempt on the item and no
\* further attempt on the profile.
C11_TerminalNotRetried ==
    [][(Failing /\ last'.err \in TerminalClass /\ last'.at \in {"fetch", "profile"})
        => /\ ~last'.rot
           /\ last'.at = "fetch" => pc' # "fetch"
           /\ last'.at = "profile" => pc' # "pp_attempt"]_vars

\* C12: a soft-class failure (generic connectivity) of an item fetch or of a
\* profile lookup makes no call to rotate_on_error: rotate_on_error is called
\* only for failures of the hard-rotate class.
C12_SoftNeverRotates ==
    [][(Failing /\ last'.at \in {"fetch", "profile"})
        => /\ last'.err \in SoftClass => ~last'.rot
           /\ last'.rot => last'.err \in HardRotateClass]_vars

\* the greatest identity among the items of the non-empty set S
GreatestIdent(S) ==
    IdentOf(CHOOSE i \in S : \A j \in S : IdentLe(IdentOf(j), IdentOf(i)))

\* C13: when a daily or all-mode harvest ends having downloaded at least one
\* item, and the greatest downloaded identity exceeds the marker read at the
\* start (or there was none), the marker file written at the end reads back as
\* exactly the greatest identity among the items downloaded in this harvest.
C13_MarkerAdvance ==
    [][(/\ pc = "persist"
        /\ cfg.mode \in {"daily", "all"}
        /\ dl.got # {}
        /\ (dl.marker = None \/ IdentLt(dl.marker[1], GreatestIdent(dl.got))))
        => load_marker(markerFile'[CurProfile][kind]) = Some(GreatestIdent(dl.got))]_vars

\* a harvest that downloaded two items out of order has ended and moved a
\* marker that existed to the greatest of them
C13_Witness ==
    \E p \in Profiles, s \in Streams :
        /\ cfg.mode \in {"daily", "all"}
        /\ pc \notin {"scan", "fetch", "persist"}
        /\ load_marker(marker0[p][s]) # None
        /\ load_marker(markerFile[p][s]) # load_marker(marker0[p][s])
        /\ Cardinality(fetched_ok[p][s]) >= 2
        /\ load_marker(markerFile[p][s]) = Some(GreatestIdent(fetched_ok[p][s]))

\* the items the harvest at pc = "persist" enumerated and that passed the date
\* filter: those up to the position the loop ended at
Enumerated ==
    LET sq == CurSeq
    IN  {sq[j] : j \in {k \in 1..Min(dl.pos, Len(sq)) : post_passes_date_filter(sq[k])}}

\* C14 as stated: when no marker existed at stream start and the harvest ends
\* with nothing downloaded, the marker is seeded with the greatest identity
\* among the items enumerated after the date filter, and nothing is written if
\* no item was enumerated.
C14_SeedFromEnumeration ==
    [][(pc = "persist" /\ dl.marker = None /\ dl.got = {})
        => IF Enumerated = {}
           THEN markerFile' = markerFile
           ELSE load_marker(markerFile'[CurProfile][kind]) = Some(GreatestIdent(Enumerated))]_vars

\* C14 amended: the same, for the harvests of a daily or all-mode run.
C14_SeedInMarkerModes ==
    [][(pc = "persist" /\ cfg.mode \in {"daily", "all"} /\ dl.marker = None /\ dl.got = {})
        => IF Enumerated = {}
           THEN markerFile' = markerFile
           ELSE load_marker(markerFile'[CurProfile][kind]) = Some(GreatestIdent(Enumerated))]_vars

\* a daily or all-mode harvest without a marker has ended with nothing
\* downloaded after enumerating items whose newest was not the last one seen,
\* and the marker now names that newest item
C14_Witness ==
    \E p \in Profiles, s \in Streams :
        /\ cfg.mode \in {"daily", "all"}
        /\ pc \notin {"scan", "fetch", "persist"}
        /\ load_marker(marker0[p][s]) = None
        /\ fetched_ok[p][s] = {}
        /\ Len(posts[p][s]) >= 2
        /\ load_marker(markerFile[p][s]) = Some(GreatestIdent({posts[p][s][j] : j \in 1..Len(posts[p][s])}))
        /\ load_marker(markerFile[p][s]) # Some(IdentOf(posts[p][s][Len(posts[p][s])]))

\* the harvest at pc = "persist" downloaded nothing above the marker it read
NothingAboveMarker ==
    dl.marker # None /\ \A i \in dl.got : IdentLe(IdentOf(i), dl.marker[1])

\* this step is the last try of a probe, and it fails: the stream is blocked
BlockedStep == pc = "probe" /\ probe_i = PROBE_TRIES /\ Failing

\* this step ends a harvest by an exception raised while scanning or fetching
CutShortStep == pc \in {"scan", "fetch"} /\ Failing /\ pc' \notin {"scan", "fetch", "persist"}

\* C15 as stated: if a marker exists and the harvest downloads nothing above
\* it, or the harvest is blocked, or it is cut short by an error, the marker
\* files after the harvest are identical to those before it.
C15_MarkerUntouched ==
    [][((pc = "persist" /\ NothingAboveMarker) \/ BlockedStep \/ CutShortStep)
        => markerFile' = markerFile]_vars

\* C15 amended: a blocked harvest leaves the marker untouched when a marker
\* exists (without one it may be seeded from disk); the other two cases are as
\* stated.
C15_MarkerUntouchedIfPresent ==
    [][(\/ pc = "persist" /\ NothingAboveMarker
        \/ BlockedStep /\ load_marker(markerFile[CurProfile][kind]) # None
        \/ CutShortStep)
        => markerFile' = markerFile]_vars

\* a stream with a marker newer than the disk has just been blocked on its
\* last probe try, and its marker is the one the run started with
C15_Witness ==
    /\ last.at \in {"probe_next", "probe_factory"}
    /\ pc # "probe"
    /\ load_marker(markerFile["p1"]["feed"]) # None
    /\ load_marker(markerFile["p1"]["feed"]) # find_newest_from_disk(disk["p1"])
    /\ find_newest_from_disk(disk["p1"]) # None
    /\ markerFile = marker0

\* a stream harvest is in progress (its loop, or the persist step after it)
InHarvest == pc \in {"scan", "fetch", "persist"}

\* C16: within one stream harvest the marker is read once, before the first
\* item: the value read stays the one the marker file holds and never changes
\* while the harvest lasts; no step taken while items are scanned or fetched
\* writes a marker file; the only write of the harvest is the one step after
\* the scan has ended, which leaves the harvest.
C16_MarkerLifecycle ==
    [][/\ (pc \in {"scan", "fetch"}) => markerFile' = markerFile
       /\ (pc \in {"scan", "fetch"} /\ InHarvest') => dl'.marker = dl.marker
       /\ (pc = "probe" /\ pc' = "scan")
             => (dl'.pos = 1 /\ dl'.marker = load_marker(markerFile[CurProfile][kind]))
       /\ (pc = "persist") => ~InHarvest']_vars

\* a harvest that downloaded two items is about to write its marker, once,
\* over the marker it read at the start
C16_Witness ==
    /\ pc = "persist"
    /\ Cardinality(dl.got) >= 2
    /\ dl.marker # None
    /\ dl.marker = load_marker(markerFile[CurProfile][kind])
    /\ persist_marker(dl, cfg.mode, markerFile[CurProfile][kind]) # markerFile[CurProfile][kind]

\* item i of profile p has been retrieved: it is in the ledger, some file of
\* it is on disk, or a download of it has succeeded (lg, d, fo: the profile's
\* ledger, disk and successful downloads)
Retrieved(i, lg, d, fo) ==
    \/ guard_hit(i, lg, d)
    \/ JsonName(i) \in d.meta \cup d.base
    \/ \E s \in Streams : i \in fo[s]

\* C17: whenever a marker is written, the item it names has been retrieved;
\* a harvest whose fetch attempts all failed creates no marker naming an item
\* that was never retrieved.
C17_MarkerNamesRetrieved ==
    [][\A p \in Profiles, s \in Streams :
         markerFile'[p][s] # markerFile[p][s]
         => \E i \in Items :
               /\ load_marker(markerFile'[p][s]) = Some(IdentOf(i))
               /\ Retrieved(i, ledger'[p], disk'[p], fetched_ok'[p])]_vars

\* the items whose metadata JSON is among the organized files of disk d
OnDiskMeta(d) == {i \in Items : JsonName(i) \in d.meta}

\* after this step the marker of the current stream names the newest item of
\* the on-disk metadata, and the stream is neither harvested nor probed again
SeededAndSkipped ==
    /\ \E i \in OnDiskMeta(disk[CurProfile]) :
          /\ \A j \in OnDiskMeta(disk[CurProfile]) : IdentLe(IdentOf(j), IdentOf(i))
          /\ load_marker(markerFile'[CurProfile][kind]) = Some(IdentOf(i))
    /\ pc' \notin {"scan", "fetch"}
    /\ ~(pc' = "probe" /\ kind' = kind /\ pidx' = pidx)

\* C18 as stated: when a stream has no marker, its probe fails on all tries and
\* at least one organized file is on disk, a marker is written naming the
\* greatest identity derivable from the on-disk metadata, and nothing of that
\* stream is fetched.
C18_SeedFromDisk ==
    [][(/\ BlockedStep
        /\ load_marker(markerFile[CurProfile][kind]) = None
        /\ disk[CurProfile].media \cup disk[CurProfile].meta # {})
        => SeededAndSkipped]_vars

\* C18 amended: the same when at least one organized metadata file is on disk.
C18_SeedFromDiskMetadata ==
    [][(/\ BlockedStep
        /\ load_marker(markerFile[CurProfile][kind]) = None
        /\ OnDiskMeta(disk[CurProfile]) # {})
        => SeededAndSkipped]_vars

\* a stream without a marker has just been blocked over a disk holding the
\* metadata of two items, and its marker now names the newer one
C18_Witness ==
    /\ last.at \in {"probe_next", "probe_factory"}
    /\ pc # "probe"
    /\ load_marker(marker0["p1"]["feed"]) = None
    /\ Cardinality(OnDiskMeta(disk["p1"])) >= 2
    /\ fetched_ok["p1"]["feed"] = {}
    /\ load_marker(markerFile["p1"]["feed"]) = Some(GreatestIdent(OnDiskMeta(disk["p1"])))

\* C19: in the liveness probe, a hard-rotate-class failure raised while the
\* first item is pulled from the fresh stream sequence makes the probe call
\* rotate_on_error before its next try.
C19_ProbeRotatesOnPull ==
    [][(pc = "probe" /\ Failing /\ last'.at = "probe_next" /\ last'.err \in HardRotateClass)
        => last'.rot]_vars

\* C20: the probe of a stream makes at most PROBE_TRIES tries; a harvest is
\* entered only by a try that succeeded, for the stream probed; when the last
\* try fails the stream is left without a harvest, the profile attempt goes on,
\* and the next applicable stream of the profile is probed from its first try
\* (reels after a blocked feed; stories and highlights where they apply).
C20_BlockedStreamSkipped ==
    [][/\ pc = "probe" => probe_i <= PROBE_TRIES
       /\ (pc = "probe" /\ pc' = "scan") => (budget' = budget /\ kind' = kind)
       /\ BlockedStep
            => /\ ~InHarvest'
               /\ ~(pc' = "probe" /\ kind' = kind)
               /\ pidx' = pidx /\ pp' = pp /\ pc' \notin {"main_loop", "pp_attempt", "end"}
               /\ (kind = "feed" /\ GateReels)
                     => (pc' = "probe" /\ kind' = "reels" /\ probe_i' = 1)
               /\ ((kind = "reels" \/ ~GateReels) /\ GateStories) => pc' = "stories"
               /\ ((kind = "reels" \/ ~GateReels) /\ ~GateStories /\ ~GateHighlights)
                     => pc' = "finish"]_vars

\* the feed, which has a post to fetch, has just been blocked on its last try
\* and the reels of the same profile attempt are at their first probe try
C20_Witness ==
    /\ last.at \in {"probe_next", "probe_factory"}
    /\ pc = "probe" /\ kind = "reels" /\ probe_i = 1
    /\ budget = 1
    /\ pp.attempts = 1
    /\ Len(posts[CurProfile]["feed"]) > 0
    /\ fetched_ok[CurProfile]["feed"] = {}

\* the single-stream flags that are set
FlagsSet ==
    {f \in {"feed", "reels", "stories", "highlights"} :
        \/ f = "feed" /\ cfg.feed_only
        \/ f = "reels" /\ cfg.reels_only
        \/ f = "stories" /\ cfg.stories_only
        \/ f = "highlights" /\ cfg.highlights_only}

\* the stream kind process_profile is harvesting, "none" between harvests
Harvesting ==
    IF InHarvest THEN kind
    ELSE IF pc \in {"stories", "highlights"} THEN pc
    ELSE "none"

\* C21: with exactly one single-stream flag set, only that stream kind is
\* harvested; with none set, stories and highlights are harvested only in all
\* mode.
C21_StreamSelection ==
    /\ \A f \in FlagsSet : Cardinality(FlagsSet) = 1 => Harvesting \in {"none", f}
    /\ (FlagsSet = {} /\ Harvesting \in {"stories", "highlights"}) => cfg.mode = "all"

\* C22: for the same marker, ledger, disk content and item sequence, the feed
\* harvest in all mode treats the item it is at exactly as the feed harvest in
\* daily mode does: the same decision (stop, skip or fetch), and the same
\* marker would be written were the harvest to end here.
C22_AllScansLikeDaily ==
    (pc = "scan" /\ kind = "feed" /\ dl.pos <= Len(CurSeq) /\ post_passes_date_filter(CurItem))
    => /\ scan_item(dl, CurItem, ledger[CurProfile], disk[CurProfile], "all").next
          = scan_item(dl, CurItem, ledger[CurProfile], disk[CurProfile], "daily").next
       /\ persist_marker(dl, "all", markerFile[CurProfile]["feed"])
          = persist_marker(dl, "daily", markerFile[CurProfile]["feed"])

\* C23: in init mode the harvest never stops early: the loop over the items is
\* left only when the sequence is exhausted (were it not for an exception
\* raised by the sequence itself), every item enumerated before that, and
\* every item that passes the date window and no guard reports as retrieved
\* gets a fetch attempt.
C23_BulkScansFully ==
    [][(cfg.mode = "init" /\ pc \in {"scan", "fetch"})
        => /\ pc' \notin {"scan", "fetch"}
                => \/ pc' = "persist" /\ dl.pos > Len(CurSeq)
                   \/ Failing /\ last'.at = "iter"
           /\ (pc = "scan" /\ pc' = "scan") => dl'.pos = dl.pos + 1
           /\ (/\ pc = "scan" /\ dl.pos <= Len(CurSeq) /\ ~Failing
               /\ post_passes_date_filter(CurItem)
               /\ ~guard_hit(CurItem, ledger[CurProfile], disk[CurProfile]))
                => pc' = "fetch"]_vars

\* C24: for one item in one harvest download_post is called at most
\* MAX_RETRIES_POST times: the attempt under way is never beyond the cap,
\* whatever failed before it and whether or not a rotation took place.
C24_ItemAttemptCap ==
    pc = "fetch" => one.attempt \in 1..MAX_RETRIES_POST

\* the last allowed attempt of an item is under way after a failure that
\* rotated the credential
C24_Witness ==
    /\ pc = "fetch"
    /\ one.attempt = MAX_RETRIES_POST
    /\ last.at = "fetch" /\ last.rot
    /\ sman.idx # one.L

\* process_profile is running (between its call and its return)
InProfile == pc \notin {"main_loop", "end"}

\* C25: process_profile starts the processing of one profile at most
\* MAX_RETRIES_PROFILE times, and every call of it returns, whatever fails.
C25_ProfileAttemptCap ==
    /\ [](pp.attempts <= MAX_RETRIES_PROFILE)
    /\ (InProfile ~> ~InProfile)

\* process_profile has returned after MAX_RETRIES_PROFILE attempts
C25_Witness ==
    /\ pc = "main_loop"
    /\ ret # <<>>
    /\ ret[Len(ret)].attempts = MAX_RETRIES_PROFILE

Rotated(s, n) ==
    [idx |-> (s.idx + 1) % n, L |-> make_loader((s.idx + 1) % n), since |-> 0,
     rotate_interval |-> s.rotate_interval]

C28_ErrorRotation ==
    [][/\ rotate_on_error(sman, cfg.nsess)[1] = (cfg.nsess # 1)
       /\ (pc = "fetch" /\ Failing /\ last'.rot)
            => IF cfg.nsess = 1 THEN sman' = sman
               ELSE sman' = Rotated(sman, cfg.nsess) /\ sman'.idx # sman.idx
       /\ (pc = "fetch" /\ Failing /\ last'.rot /\ one.attempt = MAX_RETRIES_POST)
            => (cfg.nsess = 1 <=> res' = "failed_hard")]_vars

\* a failed item attempt has called rotate_on_error with two credentials: the
\* other credential is active and the clock is reset
C28_Witness ==
    /\ last.at = "fetch" /\ last.rot
    /\ cfg.nsess = 2
    /\ sman.idx # one.L
    /\ sman.since = 0

\* C29: at every point of a run the index of the session manager is a valid
\* position in the credential list and its one active session was built from
\* the credential at that index.
C29_SingleActiveSession ==
    /\ sman.idx \in 0..(cfg.nsess - 1)
    /\ sman.L = make_loader(sman.idx)

\* the active credential is the first one again after a time-based and an
\* error-based rotation
C29_Witness ==
    /\ cfg.nsess = 2
    /\ run = 1 /\ budget = MAX_RETRIES_PROFILE
    /\ last.rot
    /\ sman.idx = 0

\* an error-based rotation took place in this step: the step caught an
\* exception of the rotate class, called rotate_on_error, and there is another
\* credential to move to
ErrorRotation ==
    /\ Failing
    /\ last'.rot
    /\ last'.err \in HARD_ROTATE_ERRORS
    /\ cfg.nsess > 1

MissingChildren(u) ==
    {k \in 1..Len(u.post.nodes) :
        /\ u.post.nodes[k]
        /\ side_name(get_post_identifiers(u.post.item)[1], k) \notin u.d.base \cup u.d.media}

OutsideWindow(i) ==
    \/ cfg.after # None /\ DateUtc(i) <= cfg.after[1]
    \/ cfg.before # None /\ DateUtc(i) >= cfg.before[1]

\* C32: a post at or outside a bound of the date window is never fetched and
\* changes neither top_seen nor the streak counter: the scan passes it over;
\* a post strictly inside the window is processed (it counts for top_seen).
C32_StrictDateWindow ==
    [][/\ pc' = "fetch" => ~OutsideWindow(posts'[profiles'[pidx']][kind'][dl'.pos])
       /\ (pc = "scan" /\ dl.pos <= Len(CurSeq) /\ ~Failing)
            => IF OutsideWindow(CurItem)
               THEN /\ pc' = "scan"
                    /\ dl' = [dl EXCEPT !.pos = @ + 1]
               ELSE /\ dl'.top_ident_seen # None
                    /\ ~IdentLt(dl'.top_ident_seen[1], IdentOf(CurItem))]_vars

\* with both bounds set, the newest post, at the upper bound, was passed over
\* and the next one is being fetched: top_seen is the post being fetched
C32_Witness ==
    /\ pc = "fetch"
    /\ cfg.after # None /\ cfg.before # None
    /\ dl.pos = 2
    /\ OutsideWindow(CurSeq[1])
    /\ dl.top_ident_seen = Some(IdentOf(CurItem))

\* ---------------------------------------------------------------------- C33
\* the credential file is missing or holds no line with a session id
NoUsableCredential ==
    \/ sessions_txt = None
    \/ \A k \in 1..Len(sessions_txt[1]) :
           sessions_txt[1][k] \notin {"cookie", "user_sep_sid", "user_sid", "bare"}

\* C33: if no usable credential can be loaded, the run aborts before any
\* profile is processed: process_profile is called for no profile, nothing is
\* fetched, and no marker and no file is written.
C33_FatalStartup ==
    NoUsableCredential =>
        /\ pc \in {"start", "aborted"}
        /\ calls = <<>>
        /\ \A p \in Profiles : fetched_ok[p] = [s \in Streams |-> {}]
        /\ markerFile = marker0
        /\ \A p \in Profiles : disk[p] = DiskOf({})

\* the run was aborted over a credential file of two lines without a session id
C33_Witness ==
    /\ pc = "aborted"
    /\ sessions_txt # None
    /\ Len(sessions_txt[1]) = 2
    /\ sessions_txt[1][1] # sessions_txt[1][2]

\* ---------------------------------------------------------------------- C34
\* C34: when the run is interrupted, on exit no media or metadata file that
\* was downloaded is left in the raw download location (the profile root) of
\* a profile: each was moved into media/ or metadata/.
C34_FlushOnInterruption ==
    pc = "interrupted" =>
        \A p \in Profiles : \A fn \in disk[p].base :
            SplitExt(fn) \notin MEDIA_EXTS \cup META_EXTS

\* ---------------------------------------------------------------------- C35
\* C35: every failure the engine classifies (an item attempt that fails, a
\* failed probe try, a failure of the profile, of the stories or of the
\* highlights) adds a record to the run log before processing goes on.  An
\* item attempt the video fallback turned into a success is no failure.
C35_FailureLogging ==
    [][(Failing /\ ~(pc = "fetch" /\ res' = "ok")) => last'.logged]_vars

\* ---------------------------------------------------------------------- C36
\* C36: every fetch attempt of an item is made with the session that is
\* active in the SessionManager when the attempt starts; in particular the
\* attempt that follows a successful rotate_on_error uses the session rotated
\* to, not the one whose attempt failed.
C36_RetryUsesNewSession ==
    pc = "fetch" => one.L = sman.L

\* ---------------------------------------------------------------------- C37
\* C37: for every identity the harvest can persist, load_marker after
\* save_marker returns that identity, so that the next run finds the stream
\* seeded; this holds of the identity of a post without a timestamp and of an
\* identity with an empty shortcode too.
C37_MarkerRoundTrip ==
    (unit.fn = "marker" /\ unit.done) => unit.loaded = Some(unit.ident)

\* ---------------------------------------------------------------------- C38
\* an already-logged post is met at the head of the scan, without a failure
OlderMeetsLogged ==
    /\ older.pc = "posts"
    /\ older.pos <= Len(OlderFeed)
    /\ budget' = budget
    /\ LET ids == get_post_identifiers(OlderFeed[older.pos])
       IN  already_logged_post(ledger[OlderProfile], ids[1], ids[2])

OlderCaught ==
    /\ older.pc \in {"while", "posts"}
    /\ budget' < budget
    /\ older'.err \in OlderConnMsgs

\* C39: in the older downloader a profile-level ConnectionException whose
\* message holds none of 401, 403, 429 and "Please wait a few minutes" leaves
\* the profile loop: the run ends there, with the remaining profiles not
\* processed and the downloaded files not organized.  An auth/throttle error
\* rotates to the next session and retries the profile, and the retry
\* counter, which never exceeds 6, advances only when the rotation wraps
\* around to the first session.
C39_RunAbort ==
    [][/\ older.pc # "crashed"
       /\ older.retry <= 6
       /\ OlderCaught =>
            IF older'.err \in {Msg401, Msg403, Msg429, MsgWait}
            THEN /\ older'.pc = "while"
                 /\ older'.pidx = older.pidx
                 /\ older'.idx = (older.idx + 1) % cfg.nsess
                 /\ older'.retry = IF older'.idx = 0 THEN older.retry + 1 ELSE older.retry
            ELSE /\ older'.pc = "crashed"
                 /\ older'.pidx = older.pidx
                 /\ disk' = disk]_vars

\* the run ended in the first profile on a ConnectionException that is no
\* auth/throttle error, with downloaded files left in the profile root
C39_Witness ==
    /\ older.pc = "crashed"
    /\ older.pidx = 1
    /\ older.err = Msg500
    /\ older.got # {}
    /\ disk["p1"].base # {}

=============================================================================
